---- MODULE Spec2Model ----
(***************************************************************************)
(* Offline-first synchronisation engine of form_app: the Dexie store       *)
(* (src/lib/db.ts), the sync orchestrator (src/lib/sync.ts) and the server *)
(* routes it talks to (src/app/api/submit, src/app/api/grading,            *)
(* src/lib/postgres.ts).                                                   *)
(*                                                                         *)
(* JavaScript is single threaded: the code between two awaits is atomic.   *)
(* Every action below is one such stretch of a handler; the network call   *)
(* that ends a stretch is answered by the next action of that handler.     *)
(* Nullable numbers (serverSubmissionId, cloudinaryUrl, marks_awarded) use *)
(* 0 for null; nullable strings use "null", and the text of an error is    *)
(* "message" whatever it says.                                             *)
(***************************************************************************)
EXTENDS Integers, Sequences, FiniteSets, TLC

\* ------------------------------------------------------------------ bounds
MaxProcs == 2
MaxRecords == 2
MaxImages == 1
MaxQuestions == 2
MaxPosts == 2
MaxMarks == 2
MaxSavers == 2
MaxSchools == 2
MaxCallers == 1
MaxPageSyncs == 1
MaxUsers == 2
MaxLogins == 1

Procs == 1..MaxProcs
Questions == 1..MaxQuestions
Marks == 1..MaxMarks

\* The submissions the server already holds when the model starts (made online
\* by the logged-in teacher, FormRenderer.tsx:216 caches them in the mirror),
\* and their subjective answers.
GradeSubs == {1}
GradeAnswers == {1}
\* The questions of a local record that are subjective: the grading page
\* offers only these for marks (db.ts:802-813).
GradedQuestions == {1}

\* saveOfflineGrade calls that may be in progress at once.
Savers == 1..MaxSavers
Callers == 1..MaxCallers
PageSyncs == 1..MaxPageSyncs
UserIds == 1..MaxUsers
\* The usernames typed at a login: username u belongs to user u, the last one
\* to nobody.
Usernames == 1..(MaxUsers + 1)
Logins == 1..MaxLogins
\* Passwords as sequences of UTF-16 code units: "a", "p\u00e9qr", "\u20ac".
Passwords == {<<97>>, <<112, 233, 113, 114>>, <<8364>>}

\* The lists of school ids, and of assessment ids, the server may hold: never
\* empty.
Catalogues == {1..n : n \in 1..MaxSchools}

\* The status callbacks a component may register that raise when called.
Callbacks == {"faulty"}

VARIABLES
    osOnline,            \* navigator.onLine
    isSyncing,           \* sync.ts:26
    syncCallbacks,       \* sync.ts:30
    pc,                  \* per handler invocation: where it is suspended
    loc,                 \* per handler invocation: its locals
    offlineSubmissions,  \* db.offlineSubmissions, localId = index
    pendingImages,       \* db.pendingImages, localId = index; uploads is history:
                         \* how often POST /api/upload answered 2xx for the image
    createdCid,          \* history: per record, the correlation id drawn at creation
    givenImages,         \* history: per record, the questions whose image files
                         \* saveSubmissionWithImages was called with
    schoolsMeta,         \* db.syncMeta[schools_last_sync]: none, fresh (< 24 h), stale
    teacherSession,      \* db.teacherSession.get(1): 0 = none, else userId
    offlineGrades,       \* db.offlineGrades: a set of rows
    gradeSeq,            \* the ++id counter of db.offlineGrades
    syncedSubmissions,   \* db.syncedSubmissions: submissionId -> cached row
    srvSubs,             \* server table submissions, submission_id = index
    srvGrading,          \* server: status, marks_awarded and marks_obtained of the GradeSubs
    srvResponses,        \* history: every (correlation id, submission id) answered
    posted,              \* a POST /api/grading and its retries: the request, the server before and after
    saving,              \* per saveOfflineGrade call in progress: where it is and its locals
    pagePush,            \* per syncPendingGrades call of the grading page: where it is, the rows it read
    cachedSchools,       \* db.cachedSchools: the set of school ids
    cachedAssessments,   \* db.cachedAssessments: the set of assessment ids
    srvSchools,          \* server: the schools GET /api/schools answers with
    srvAssessments,      \* server: the assessments GET /api/assessments answers with
    refresh,             \* per forceSync call: the snapshot it fetches, what it checked
    sessionTbl,          \* db.teacherSession: the rows of the table
    knownUsers,          \* db.knownUsers: the rows of the table
    srvUsers,            \* server table users: userId -> username, password
    login,               \* per loginTeacher call: where it is, its arguments, its result
    verified,            \* the last verifyStoredPassword call: argument and result
    lastOk,              \* history: the most recent login that returned success
    lastOnline           \* history: per username, the password of the most recent
                         \* online login that returned success

procVars == <<pc, loc>>
recordVars == <<offlineSubmissions, pendingImages, createdCid, givenImages>>
gradeVars == <<offlineGrades, gradeSeq, syncedSubmissions, srvGrading>>
serverVars == <<srvSubs, srvResponses, posted>>
envVars == <<osOnline, syncCallbacks, schoolsMeta, teacherSession>>

editVars == <<saving, pagePush>>
snapVars == <<cachedSchools, cachedAssessments, srvSchools, srvAssessments, refresh>>

syncVars == <<isSyncing, procVars, recordVars, gradeVars, serverVars, editVars,
             snapVars>>
authVars == <<sessionTbl, knownUsers, srvUsers, login, verified, lastOk, lastOnline>>

vars == <<isSyncing, procVars, recordVars, gradeVars, serverVars, envVars,
          editVars, snapVars, authVars>>

\* ------------------------------------------------------------- helpers
RECURSIVE SeqOfSet(_)
SeqOfSet(S) ==
    IF S = {} THEN <<>>
    ELSE LET m == CHOOSE x \in S : \A y \in S : x <= y
         IN <<m>> \o SeqOfSet(S \ {m})

NoCheck == [os |-> FALSE, issued |-> FALSE, outcome |-> "none", result |-> FALSE]

\* What a forceSync call knows of the link when it fetches: navigator.onLine
\* was true (sync.ts:79, 89), checkActualConnectivity was not called.
LinkTested == [os |-> TRUE, issued |-> FALSE, outcome |-> "none", result |-> FALSE]

\* No forceSync call is in progress.
NoRefresh == [at |-> "idle", check |-> NoCheck]

\* The locals of a handler invocation. The second half is history: what the
\* invocation found when it arrived (busy) and when its cycle started
\* (startKeys, failedAtStart), the records getPendingSubmissions gave it
\* (pendingAtStart) and those it has called syncSubmission for (attempted), and
\* the sub-steps of performSync it has started, in order (steps), and the rows
\* of its grade push when the push was answered 2xx (pushed) or not (unpushed).
NoLocals ==
    [check |-> NoCheck, queue |-> <<>>, imgq |-> <<>>, answers |-> <<>>,
     attached |-> {}, snap |-> {}, hints |-> <<>>,
     busy |-> FALSE, startKeys |-> {}, failedAtStart |-> {}, attempted |-> {},
     pendingAtStart |-> {}, steps |-> <<>>, skipped |-> {}, pushed |-> {},
     unpushed |-> {}]

\* The locals of a saveOfflineGrade call: existing is the id of the row its
\* lookup returned, 0 for none.
NotSaving ==
    [at |-> "idle", submissionId |-> 0, answerId |-> 0, marks |-> 0, existing |-> 0]

\* No POST /api/grading sent yet.
NoPost == [times |-> 0, body |-> {}, hints |-> <<>>, before |-> <<>>, once |-> <<>>]

\* No syncPendingGrades call of the grading page is in progress.
NoPageSync == [at |-> "idle", snap |-> {}]

\* The outcomes of a fetch. With navigator.onLine false there is no link and
\* every request fails; with it true the request may still fail (sync.ts:103).
\*   ok         2xx response
\*   http_error non-2xx response, the server changed nothing
\*   net_error  the request never reached the server (fetch rejects)
\*   lost       the server handled the request, the response never arrived
NetOutcomes == IF osOnline THEN {"ok", "http_error", "net_error", "lost"}
               ELSE {"net_error"}

\* HEAD /api/health: as above, or aborted by the 3000 ms timer (sync.ts:113).
ProbeOutcomes == IF osOnline THEN {"ok", "http_error", "net_error", "timeout"}
                 ELSE {"net_error"}

\* ------------------------------------------------------------- db.ts
\* crypto.randomUUID() (db.ts:547): a value no earlier record carries.
RandomUUID(n) == <<"uuid", n>>

ShouldSyncSchools == schoolsMeta \in {"none", "stale"}

\* The fate of a Dexie transaction: committed, or aborted by an error of one
\* of its requests.
TxOutcomes == {"commit", "abort"}

CacheSchoolsNoTransaction(tbl, schools, tx) ==
    IF tx = "commit" THEN schools ELSE {}

\* The transaction of cacheSchools (db.ts:453-456): clear and bulkPut take
\* effect together at commit; an abort undoes the clear.
CacheSchools(tbl, schools, tx) ==
    IF tx = "commit" THEN schools ELSE tbl

MarkSchoolsSyncedBeforeCommit(meta, tx) == "fresh"

\* markSchoolsSynced as cacheSchools calls it (db.ts:457, 366-371): after the
\* transaction, which raises when it aborted, so the timestamp is written only
\* once the snapshot is stored.
MarkSchoolsSynced(meta, tx) == IF tx = "commit" THEN "fresh" ELSE meta

CacheAssessmentsNoTransaction(tbl, assessments, tx) ==
    IF tx = "commit" THEN assessments ELSE {}

\* The transaction of cacheAssessments (db.ts:482-485).
CacheAssessments(tbl, assessments, tx) ==
    IF tx = "commit" THEN assessments ELSE tbl

\* The rows read are copies: a later update of the table does not change them.
WithLocalId(tbl, ids) ==
    [k \in DOMAIN ids |-> [localId |-> ids[k], row |-> tbl[ids[k]]]]

GetPendingSubmissions(tbl) ==
    WithLocalId(tbl, SeqOfSet({i \in DOMAIN tbl : tbl[i].status = "pending"}))

UpdateSubmissionStatusPut(tbl, localId, status, serverSubmissionId, errorMessage) ==
    IF localId \in DOMAIN tbl
    THEN [tbl EXCEPT ![localId] =
            [clientSubmissionId |-> <<"uuid", 0>>,
             answers |-> <<>>,
             status |-> status,
             syncedAt |-> IF status = "synced" THEN "date" ELSE "null",
             serverSubmissionId |-> serverSubmissionId,
             errorMessage |-> errorMessage]]
    ELSE tbl

UpdateSubmissionStatusNoId(tbl, localId, status, serverSubmissionId, errorMessage) ==
    IF localId \in DOMAIN tbl
    THEN [tbl EXCEPT ![localId] =
            [@ EXCEPT !.status = status,
                      !.syncedAt = IF status = "synced" THEN "date" ELSE "null",
                      !.serverSubmissionId = 0,
                      !.errorMessage = errorMessage]]
    ELSE tbl

UpdateSubmissionStatusClearsAnswers(tbl, localId, status, serverSubmissionId, errorMessage) ==
    IF localId \in DOMAIN tbl
    THEN [tbl EXCEPT ![localId] =
            [@ EXCEPT !.status = status,
                      !.syncedAt = IF status = "synced" THEN "date" ELSE "null",
                      !.serverSubmissionId = serverSubmissionId,
                      !.errorMessage = errorMessage,
                      !.answers = <<>>]]
    ELSE tbl

UpdateSubmissionStatusKeepsError(tbl, localId, status, serverSubmissionId, errorMessage) ==
    IF localId \in DOMAIN tbl
    THEN [tbl EXCEPT ![localId] =
            [@ EXCEPT !.status = status,
                      !.syncedAt = IF status = "synced" THEN "date" ELSE "null",
                      !.serverSubmissionId = serverSubmissionId,
                      !.errorMessage = IF errorMessage = "null" THEN @
                                       ELSE errorMessage]]
    ELSE tbl

\* serverSubmissionId ?? null and errorMessage ?? null: the callers pass 0 and
\* "null" for the arguments they leave out.
UpdateSubmissionStatus(tbl, localId, status, serverSubmissionId, errorMessage) ==
    IF localId \in DOMAIN tbl
    THEN [tbl EXCEPT ![localId] =
            [@ EXCEPT !.status = status,
                      !.syncedAt = IF status = "synced" THEN "date" ELSE "null",
                      !.serverSubmissionId = serverSubmissionId,
                      !.errorMessage = errorMessage]]
    ELSE tbl

GetPendingImagesForSubmission(tbl, submissionLocalId) ==
    WithLocalId(tbl, SeqOfSet({i \in DOMAIN tbl :
                                tbl[i].submissionLocalId = submissionLocalId}))

UpdateImageStatusKeepsUrl(tbl, localId, status, cloudinaryUrl) ==
    IF localId \in DOMAIN tbl
    THEN [tbl EXCEPT ![localId] = [@ EXCEPT !.status = status]]
    ELSE tbl

\* updateImageStatus (db.ts:601-610): the URL column is written on every call,
\* null when no URL is passed.
UpdateImageStatus(tbl, localId, status, cloudinaryUrl) ==
    IF localId \in DOMAIN tbl
    THEN [tbl EXCEPT ![localId] =
            [@ EXCEPT !.status = status, !.cloudinaryUrl = cloudinaryUrl]]
    ELSE tbl

GetPendingOfflineGrades(rows) == {g \in rows : ~g.synced}

MarkGradesAsSynced(rows, gradeIds) ==
    {IF g.id \in gradeIds THEN [g EXCEPT !.synced = TRUE] ELSE g : g \in rows}

\* bulkPut: every pulled row replaces the cached row with the same key.
CacheSyncedSubmissions(mirror, pulled) ==
    [s \in (DOMAIN mirror) \cup (DOMAIN pulled) |->
        IF s \in DOMAIN pulled THEN pulled[s] ELSE mirror[s]]

\* ------------------------------------------------------------- auth.ts
\* The key of encryptPassword, 'pijam-offline-key', as code units (auth.ts:49).
XorKey == <<112, 105, 106, 97, 109, 45, 111, 102, 102, 108, 105, 110, 101, 45,
            107, 101, 121>>

\* a ^ b of JavaScript on code units.
RECURSIVE Xor(_, _)
Xor(a, b) ==
    IF a = 0 THEN b
    ELSE IF b = 0 THEN a
    ELSE (((a % 2) + (b % 2)) % 2) + 2 * Xor(a \div 2, b \div 2)

\* The loop of encryptPassword and of decryptPassword (auth.ts:51-53, 61-63).
XorWithKey(text) ==
    [i \in 1..Len(text) |-> Xor(text[i], XorKey[((i - 1) % Len(XorKey)) + 1])]

\* btoa raises InvalidCharacterError for a code unit above 255.
BtoaRaises(text) == \E i \in 1..Len(text) : text[i] > 255

\* btoa: three bytes become four digits of base 64; 64 stands for '='.
RECURSIVE Btoa(_)
Btoa(text) ==
    IF text = <<>> THEN <<>>
    ELSE LET n == Len(text)
             b2 == IF n >= 2 THEN text[2] ELSE 0
             b3 == IF n >= 3 THEN text[3] ELSE 0
             v == (text[1] * 65536) + (b2 * 256) + b3
             d1 == v \div 262144
             d2 == (v \div 4096) % 64
             d3 == (v \div 64) % 64
             d4 == v % 64
         IN IF n = 1 THEN <<d1, d2, 64, 64>>
            ELSE IF n = 2 THEN <<d1, d2, d3, 64>>
            ELSE <<d1, d2, d3, d4>> \o Btoa(SubSeq(text, 4, n))

\* atob of a text btoa made: four digits become three bytes, fewer at '='.
RECURSIVE Atob(_)
Atob(digits) ==
    IF digits = <<>> THEN <<>>
    ELSE LET d3 == IF digits[3] = 64 THEN 0 ELSE digits[3]
             d4 == IF digits[4] = 64 THEN 0 ELSE digits[4]
             v == (digits[1] * 262144) + (digits[2] * 4096) + (d3 * 64) + d4
             b1 == v \div 65536
             b2 == (v \div 256) % 256
             b3 == v % 256
         IN IF digits[3] = 64 THEN <<b1>>
            ELSE IF digits[4] = 64 THEN <<b1, b2>>
            ELSE <<b1, b2, b3>> \o Atob(SubSeq(digits, 5, Len(digits)))

\* encryptPassword (auth.ts:48-55): ok is FALSE when btoa raises.
EncryptPassword(password) ==
    LET mixed == XorWithKey(password)
    IN IF BtoaRaises(mixed)
       THEN [ok |-> FALSE, value |-> <<>>]
       ELSE [ok |-> TRUE, value |-> Btoa(mixed)]

\* decryptPassword (auth.ts:57-65).
DecryptPassword(encrypted) == XorWithKey(Atob(encrypted))

PutTeacherSessionByUser(tbl, userId, username, storedPassword) ==
    {r \in tbl : r.id # userId} \cup
       {[id |-> userId, userId |-> userId, username |-> username,
         storedPassword |-> storedPassword]}

\* The put of saveTeacherSession (auth.ts:88-93): the row with id 1 is
\* replaced.
PutTeacherSession(tbl, userId, username, storedPassword) ==
    {r \in tbl : r.id # 1} \cup
       {[id |-> 1, userId |-> userId, username |-> username,
         storedPassword |-> storedPassword]}

\* clearTeacherSession (auth.ts:99-101).
DeleteTeacherSession(tbl) == {r \in tbl : r.id # 1}

\* getTeacherSession (auth.ts:72-79): the rows with id 1, none or one.
GetTeacherSession(tbl) == {r \in tbl : r.id = 1}

SaveKnownUserKeepsOld(tbl, userId, username, storedPassword) ==
    IF \E r \in tbl : r.userId = userId THEN tbl
    ELSE tbl \cup {[userId |-> userId, username |-> username,
                    storedPassword |-> storedPassword]}

\* saveKnownUser (db.ts:352-354): put on the primary key userId.
SaveKnownUser(tbl, userId, username, storedPassword) ==
    {r \in tbl : r.userId # userId} \cup
       {[userId |-> userId, username |-> username,
         storedPassword |-> storedPassword]}

\* getKnownUser (db.ts:359-361): the first row of the username index, none or
\* one.
GetKnownUser(tbl, username) ==
    {r \in tbl : /\ r.username = username
                 /\ \A q \in tbl : q.username = username => r.userId <= q.userId}

VerifyLoginIgnoresPassword(users, username, password) ==
    {u \in DOMAIN users : users[u].username = username}

\* POST /api/auth/login (login/route.ts:51-77): the users the credentials
\* match, none or one.
VerifyLogin(users, username, password) ==
    {u \in DOMAIN users : users[u].username = username /\ users[u].password = password}

NoLogin ==
    [at |-> "idle", username |-> 0, password |-> <<>>, reported |-> FALSE,
     offline |-> FALSE, result |-> "none"]

\* ------------------------------------------------------------- server
\* INSERT ... ON CONFLICT (client_submission_id) DO UPDATE ... RETURNING
\* submission_id (postgres.ts:169-198).
HasRow(rows, cid) == \E i \in DOMAIN rows : rows[i].client_submission_id = cid

CreateSubmissionLegacy(rows, cid, answers) ==
    [rows |-> Append(rows, [client_submission_id |-> cid, answers |-> answers,
                            posts |-> 1]),
     submission_id |-> Len(rows) + 1]

CreateSubmission(rows, cid, answers) ==
    IF HasRow(rows, cid)
    THEN LET i == CHOOSE j \in DOMAIN rows : rows[j].client_submission_id = cid
         IN [rows |-> [rows EXCEPT ![i] = [@ EXCEPT !.answers = answers,
                                                    !.posts = @ + 1]],
             submission_id |-> i]
    ELSE [rows |-> Append(rows, [client_submission_id |-> cid, answers |-> answers,
                                 posts |-> 1]),
          submission_id |-> Len(rows) + 1]

\* GET /api/grading?teacherId= (grading/route.ts:31, 99-117): the submissions
\* of the teacher whose status is pending, with their subjective answers.
GradingGet(srv) ==
    [s \in {t \in DOMAIN srv : srv[t].status = "pending"} |->
        [status |-> srv[s].status, marksAwarded |-> srv[s].marksAwarded]]

\* SUM(marks_awarded) over the answers of a submission (grading/route.ts:244-249):
\* its subjective answers and its objective one, NULL counting for nothing.
RECURSIVE SumMarks(_, _)
SumMarks(marksAwarded, answers) ==
    IF answers = {} THEN 0
    ELSE LET a == CHOOSE x \in answers : TRUE
         IN marksAwarded[a] + SumMarks(marksAwarded, answers \ {a})

MarksObtained(marksAwarded, objective) ==
    SumMarks(marksAwarded, DOMAIN marksAwarded)
        + (IF objective = <<>> THEN 0 ELSE objective[1])

\* The marks of the body written over those of a submission
\* (grading/route.ts:197-205).
UpdateMarks(row, s, body) ==
    [a \in DOMAIN row.marksAwarded |->
        IF \E b \in body : b.submissionId = s /\ b.answerId = a
        THEN (CHOOSE b \in body : b.submissionId = s /\ b.answerId = a).marks
        ELSE row.marksAwarded[a]]

\* The auto-grading of the objective answer (grading/route.ts:210-237): only a
\* NULL marks_awarded is written.
AutoGrade(row) == IF row.objective = <<>> THEN <<row.autoMarks>> ELSE row.objective

GradingPostAddsToTotal(srv, body, hints) ==
    [s \in DOMAIN srv |->
        IF \E b \in body : b.submissionId = s
        THEN [srv[s] EXCEPT
                !.status = IF s \in DOMAIN hints THEN hints[s] ELSE "graded",
                !.marksAwarded = UpdateMarks(srv[s], s, body),
                !.objective = AutoGrade(srv[s]),
                !.marksObtained =
                    @ + SumMarks(UpdateMarks(srv[s], s, body),
                                 {b.answerId : b \in {c \in body : c.submissionId = s}})]
        ELSE srv[s]]

\* POST /api/grading (grading/route.ts:192-268): body = the (submission, answer,
\* marks) triples sent, hints = completionStatus. For every submission of the
\* body the marks are written, the objective answer is auto-graded where it has
\* no marks, the total is summed again and the status is set.
GradingPost(srv, body, hints) ==
    [s \in DOMAIN srv |->
        IF \E b \in body : b.submissionId = s
        THEN [srv[s] EXCEPT
                !.status = IF s \in DOMAIN hints THEN hints[s] ELSE "graded",
                !.marksAwarded = UpdateMarks(srv[s], s, body),
                !.objective = AutoGrade(srv[s]),
                !.marksObtained = MarksObtained(UpdateMarks(srv[s], s, body),
                                                AutoGrade(srv[s]))]
        ELSE srv[s]]

\* ------------------------------------------------------------- Init
\* A submission before any grading: pending, no marks given, the objective
\* answer with marks_awarded NULL.
Ungraded ==
    [status |-> "pending", marksAwarded |-> [a \in GradeAnswers |-> 0],
     objective |-> <<>>, autoMarks |-> 1, marksObtained |-> 0]

\* The device after the teacher logged in and submitted the GradeSubs online:
\* the server holds them ungraded and the mirror caches them.
InitDevice ==
    /\ osOnline \in BOOLEAN
    /\ isSyncing = FALSE
    /\ syncCallbacks = {}
    /\ pc = [p \in Procs |-> "idle"]
    /\ loc = [p \in Procs |-> NoLocals]
    /\ schoolsMeta = "none"
    /\ teacherSession = 1
    /\ srvSubs = <<>>
    /\ srvResponses = {}
    /\ posted = NoPost
    /\ saving = [e \in Savers |-> NotSaving]
    /\ pagePush = [c \in PageSyncs |-> NoPageSync]
    /\ cachedSchools = {}
    /\ cachedAssessments = {}
    /\ srvSchools = {1}
    /\ srvAssessments = {1}
    /\ refresh = [c \in Callers |-> NoRefresh]
    /\ srvUsers = [u \in UserIds |-> [username |-> u, password |-> <<97>>]]
    /\ sessionTbl = PutTeacherSession({}, 1, 1, EncryptPassword(<<97>>).value)
    /\ knownUsers = SaveKnownUser({}, 1, 1, EncryptPassword(<<97>>).value)
    /\ login = [l \in Logins |-> NoLogin]
    /\ verified = [called |-> FALSE, password |-> <<>>, result |-> FALSE]
    /\ lastOk = [userId |-> 1, password |-> <<97>>]
    /\ lastOnline = [n \in Usernames |->
                       IF n = 1 THEN [known |-> TRUE, password |-> <<97>>]
                       ELSE [known |-> FALSE, password |-> <<>>]]

InitCommon == InitDevice /\ srvGrading = [s \in GradeSubs |-> Ungraded]

NoRecords ==
    /\ offlineSubmissions = <<>>
    /\ pendingImages = <<>>
    /\ createdCid = <<>>
    /\ givenImages = <<>>

NoGrades ==
    /\ offlineGrades = {}
    /\ gradeSeq = 0
    /\ syncedSubmissions =
         [s \in GradeSubs |-> [status |-> "pending",
                               marksAwarded |-> [a \in GradeAnswers |-> 0]]]

\* Nothing is queued.
Init == InitCommon /\ NoRecords /\ NoGrades

\* submission.answers of a record: one answer per question, no image URL yet.
InitialAnswers == [q \in Questions |-> [imageUrl |-> 0, marksAwarded |-> 0]]

OneRecord ==
    /\ offlineSubmissions = <<[clientSubmissionId |-> <<"uuid", 1>>,
                               answers |-> InitialAnswers,
                               status |-> "pending", syncedAt |-> "null",
                               serverSubmissionId |-> 0, errorMessage |-> "null"]>>
    /\ pendingImages = <<[submissionLocalId |-> 1, questionId |-> 1,
                          status |-> "pending", cloudinaryUrl |-> 0,
                          uploads |-> 0]>>
    /\ createdCid = << <<"uuid", 1>> >>
    /\ givenImages = <<{1}>>

OneGrade ==
    /\ offlineGrades = {[id |-> 1, submissionId |-> 1, answerId |-> 1,
                         marks |-> 1, synced |-> FALSE]}
    /\ gradeSeq = 1
    /\ syncedSubmissions =
         [s \in GradeSubs |-> [status |-> "pending",
                               marksAwarded |-> [a \in GradeAnswers |-> 1]]]

\* result.secure_url of POST /api/upload (upload/route.ts:58-62): a URL of its
\* own for every image stored, never null.
SecureUrl(localId) == localId

\* The store holds one pending record with an image for every question, each
\* image either waiting for its upload or uploaded with its URL. (A record
\* comes to this state when an attempt uploaded its images and the record is
\* pending again for the next attempt.)
InitAssets ==
    /\ InitCommon
    /\ NoGrades
    /\ offlineSubmissions = <<[clientSubmissionId |-> <<"uuid", 1>>,
                               answers |-> InitialAnswers,
                               status |-> "pending", syncedAt |-> "null",
                               serverSubmissionId |-> 0, errorMessage |-> "null"]>>
    /\ createdCid = << <<"uuid", 1>> >>
    /\ givenImages = <<Questions>>
    /\ \E done \in SUBSET Questions :
          pendingImages =
             [q \in Questions |->
                IF q \in done
                THEN [submissionLocalId |-> 1, questionId |-> q,
                      status |-> "uploaded", cloudinaryUrl |-> SecureUrl(q), uploads |-> 1]
                ELSE [submissionLocalId |-> 1, questionId |-> q,
                      status |-> "pending", cloudinaryUrl |-> 0, uploads |-> 0]]

\* The store holds one record with one image made while offline
\* (saveSubmissionWithImages) and one grade given while offline (saveOfflineGrade).
InitGuard == InitCommon /\ OneRecord /\ OneGrade

\* The store holds one record with one image made while offline and no grade.
InitLocal == InitCommon /\ OneRecord /\ NoGrades

\* The rows a submission can have on the server: graded or not, the objective
\* answer with marks or NULL, the total as summed when the row was written.
GradeStatuses == {"pending", "graded"}

ServerRows ==
    {row \in [status : GradeStatuses,
              marksAwarded : [GradeAnswers -> 0..MaxMarks],
              objective : {<<>>} \cup {<<m>> : m \in 0..MaxMarks},
              autoMarks : 0..MaxMarks,
              marksObtained : 0..((Cardinality(GradeAnswers) + 1) * MaxMarks)] :
        row.marksObtained = MarksObtained(row.marksAwarded, row.objective)}

\* The server holds any such rows; the device holds nothing to sync.
InitGrading ==
    /\ InitDevice
    /\ NoRecords
    /\ NoGrades
    /\ srvGrading \in [GradeSubs -> ServerRows]

\* ------------------------------------------------------------- sync.ts
SetPc(p, where) == pc' = [pc EXCEPT ![p] = where]

Return(p) ==
    /\ pc' = [pc EXCEPT ![p] = "idle"]
    /\ loc' = [loc EXCEPT ![p] = NoLocals]

CycleStages ==
    {"schools", "subs", "upload", "uploading", "post", "pushing", "pull", "finish"}

\* The invocation is inside the try block of performSync.
InCycle(p) == pc[p] \in CycleStages

\* notifyListeners (sync.ts:510-512): forEach calls every callback; a callback
\* that raises ends the forEach and the exception leaves notifyListeners.
NotifyRaises == syncCallbacks # {}

\* checkActualConnectivity (sync.ts:106-124): os is navigator.onLine when it is
\* called, outcome the fate of the HEAD probe ("none": no probe was issued).
CheckActualConnectivityIgnoresStatus(os, outcome) ==
    IF ~os THEN FALSE ELSE outcome \in {"ok", "http_error"}

CheckActualConnectivity(os, outcome) ==
    IF ~os THEN FALSE ELSE outcome = "ok"

\* The guard of performSync (sync.ts:160).
NoGuard == FALSE

PerformSyncGuard == isSyncing

\* triggerSync up to its first await (sync.ts:66-70): it returns when offline
\* or when a cycle is running; otherwise checkActualConnectivity issues the
\* probe.
TriggerSync(p) ==
    /\ pc[p] = "idle"
    /\ pc' = [pc EXCEPT ![p] = IF osOnline /\ ~isSyncing THEN "probe" ELSE "idle"]
    /\ UNCHANGED <<authVars, editVars, snapVars, isSyncing, loc, recordVars, gradeVars, serverVars, envVars>>

\* handleFocus up to its first await (sync.ts:150-152).
HandleFocus(p) ==
    /\ pc[p] = "idle"
    /\ pc' = [pc EXCEPT ![p] = IF osOnline /\ ~isSyncing THEN "probe" ELSE "idle"]
    /\ UNCHANGED <<authVars, editVars, snapVars, isSyncing, loc, recordVars, gradeVars, serverVars, envVars>>

\* The browser's 'online' event: navigator.onLine turns true and handleOnline
\* starts its settle delay (sync.ts:141-143).
HandleOnline(p) ==
    /\ ~osOnline
    /\ osOnline' = TRUE
    /\ pc[p] = "idle"
    /\ SetPc(p, "settle")
    /\ loc' = [loc EXCEPT ![p].busy = \E q \in Procs : InCycle(q)]
    /\ UNCHANGED <<authVars, editVars, snapVars, isSyncing, recordVars, gradeVars, serverVars, syncCallbacks,
                   schoolsMeta, teacherSession>>

GoOffline ==
    /\ osOnline
    /\ osOnline' = FALSE
    /\ UNCHANGED <<authVars, editVars, snapVars, isSyncing, procVars, recordVars, gradeVars, serverVars,
                   syncCallbacks, schoolsMeta, teacherSession>>

\* The settle delay is over and handleOnline calls checkActualConnectivity
\* (sync.ts:144, 108-118): offline answers false at once, online issues the probe.
SettleDone(p) ==
    /\ pc[p] = "settle"
    /\ IF osOnline
       THEN /\ SetPc(p, "probe")
            /\ UNCHANGED loc
       ELSE /\ SetPc(p, "checked")
            /\ loc' = [loc EXCEPT ![p].check =
                         [os |-> FALSE, issued |-> FALSE, outcome |-> "none",
                          result |-> CheckActualConnectivity(FALSE, "none")]]
    /\ UNCHANGED <<authVars, editVars, snapVars, isSyncing, recordVars, gradeVars, serverVars, envVars>>

\* The probe issued with navigator.onLine true is answered (sync.ts:114-123).
ProbeDone(p) ==
    /\ pc[p] = "probe"
    /\ \E outcome \in ProbeOutcomes :
         loc' = [loc EXCEPT ![p].check =
                   [os |-> TRUE, issued |-> TRUE, outcome |-> outcome,
                    result |-> CheckActualConnectivity(TRUE, outcome)]]
    /\ SetPc(p, "checked")
    /\ UNCHANGED <<authVars, editVars, snapVars, isSyncing, recordVars, gradeVars, serverVars, envVars>>

UnsyncedKeys(rows) ==
    {<<g.submissionId, g.answerId>> : g \in {h \in rows : ~h.synced}}

FailedRecords(tbl) == {i \in DOMAIN tbl : tbl[i].status = "failed"}

\* The caller of checkActualConnectivity goes on (sync.ts:71-72, 145-147,
\* 153-155): with false it returns, with true it calls performSync, which
\* returns at its guard or sets isSyncing and notifies the listeners
\* (sync.ts:160-170). An exception of that first notification leaves
\* performSync before its try block.
AfterCheck(p) ==
    /\ pc[p] = "checked"
    /\ IF loc[p].check.result /\ ~PerformSyncGuard
       THEN /\ isSyncing' = TRUE
            /\ IF NotifyRaises
               THEN Return(p)
               ELSE /\ SetPc(p, "schools")
                    /\ loc' = [loc EXCEPT ![p] =
                                 [NoLocals EXCEPT
                                    !.busy = loc[p].busy,
                                    !.startKeys = UnsyncedKeys(offlineGrades),
                                    !.failedAtStart =
                                        FailedRecords(offlineSubmissions)]]
       ELSE /\ Return(p)
            /\ UNCHANGED isSyncing
    /\ UNCHANGED <<authVars, editVars, snapVars, recordVars, gradeVars, serverVars, envVars>>

\* Step 1 (sync.ts:173-185, syncSchools 230-254, cacheSchools db.ts:452-458),
\* then the read of the pending records (sync.ts:188). An exception of the
\* notification is caught: catch and finally (sync.ts:216-227) end the cycle.
SchoolsStep(p) ==
    /\ pc[p] = "schools"
    /\ \E outcome \in NetOutcomes :
         IF ShouldSyncSchools /\ NotifyRaises
         THEN /\ isSyncing' = FALSE
              /\ Return(p)
              /\ UNCHANGED <<schoolsMeta, cachedSchools>>
         ELSE /\ \E tx \in TxOutcomes :
                   IF ShouldSyncSchools /\ outcome = "ok"
                   THEN /\ cachedSchools' =
                             CacheSchools(cachedSchools, srvSchools, tx)
                        /\ schoolsMeta' = MarkSchoolsSynced(schoolsMeta, tx)
                   ELSE UNCHANGED <<cachedSchools, schoolsMeta>>
              /\ SetPc(p, "subs")
              /\ loc' = [loc EXCEPT
                           ![p].queue = GetPendingSubmissions(offlineSubmissions),
                           ![p].pendingAtStart =
                               {i \in DOMAIN offlineSubmissions :
                                  offlineSubmissions[i].status = "pending"},
                           ![p].steps =
                               IF ShouldSyncSchools
                               THEN <<"schools", "submissions">>
                               ELSE <<"submissions">>]
              /\ UNCHANGED isSyncing
    /\ UNCHANGED <<authVars, editVars, cachedAssessments, srvSchools, srvAssessments, refresh,
                   recordVars, gradeVars, serverVars, osOnline, syncCallbacks,
                   teacherSession>>

\* syncSubmission up to the first await of uploadPendingImages
\* (sync.ts:351-357, 413-414).
BeginSubmission(p) ==
    /\ pc[p] = "subs"
    /\ loc[p].queue # <<>>
    /\ LET sub == Head(loc[p].queue)
       IN /\ offlineSubmissions' =
               UpdateSubmissionStatus(offlineSubmissions, sub.localId, "syncing",
                                      0, "null")
          /\ loc' = [loc EXCEPT
                       ![p].imgq = GetPendingImagesForSubmission(pendingImages,
                                                                 sub.localId),
                       ![p].answers = sub.row.answers,
                       ![p].attempted = @ \cup {sub.localId}]
    /\ SetPc(p, "upload")
    /\ UNCHANGED <<authVars, editVars, snapVars, isSyncing, pendingImages, createdCid, givenImages, gradeVars, serverVars,
                   envVars>>

\* The offline grades of the record, keyed by its negated ids (sync.ts:360-366).
AttachGrades(answers, rows) ==
    [q \in DOMAIN answers |->
        IF \E g \in rows : g.answerId = -q
        THEN [answers[q] EXCEPT !.marksAwarded =
                (CHOOSE g \in rows : g.answerId = -q).marks]
        ELSE answers[q]]

NeverUploaded(row) == FALSE

\* The test of the skip (sync.ts:417).
AlreadyUploaded(row) == row.status = "uploaded" /\ row.cloudinaryUrl # 0

\* One turn of the loop of uploadPendingImages (sync.ts:416-431); after the
\* last image syncSubmission attaches the grades and issues POST /api/submit
\* (sync.ts:360-385).
UploadNext(p) ==
    /\ pc[p] = "upload"
    /\ LET sub == Head(loc[p].queue)
           attached == {g \in offlineGrades : g.submissionId = -sub.localId}
       IN IF loc[p].imgq = <<>>
          THEN /\ SetPc(p, "post")
               /\ loc' = [loc EXCEPT
                            ![p].attached = attached,
                            ![p].answers = AttachGrades(loc[p].answers, attached)]
               /\ UNCHANGED pendingImages
          ELSE LET image == Head(loc[p].imgq)
               IN IF AlreadyUploaded(image.row)
                  THEN /\ loc' = [loc EXCEPT
                                    ![p].imgq = Tail(loc[p].imgq),
                                    ![p].answers[image.row.questionId].imageUrl =
                                        image.row.cloudinaryUrl,
                                    ![p].skipped = @ \cup {image.localId}]
                       /\ UNCHANGED <<pc, pendingImages>>
                  ELSE /\ pendingImages' =
                            UpdateImageStatus(pendingImages, image.localId,
                                              "uploading", 0)
                       /\ SetPc(p, "uploading")
                       /\ UNCHANGED loc
    /\ UNCHANGED <<authVars, editVars, snapVars, isSyncing, offlineSubmissions, createdCid, givenImages, gradeVars,
                   serverVars, envVars>>

NextRecordStops(p) ==
    /\ SetPc(p, "subs")
    /\ loc' = [loc EXCEPT ![p].queue = <<>>,
                          ![p].imgq = <<>>,
                          ![p].answers = <<>>,
                          ![p].attached = {}]

\* The next record of the loop of performSync (sync.ts:190-192).
NextRecord(p) ==
    /\ SetPc(p, "subs")
    /\ loc' = [loc EXCEPT ![p].queue = Tail(loc[p].queue),
                          ![p].imgq = <<>>,
                          ![p].answers = <<>>,
                          ![p].attached = {}]

UploadSucceededUrlDropped(p) ==
    LET image == Head(loc[p].imgq)
        counted == [pendingImages EXCEPT ![image.localId].uploads = @ + 1]
    IN /\ pendingImages' = UpdateImageStatus(counted, image.localId,
                                             "uploaded", SecureUrl(image.localId))
       /\ loc' = [loc EXCEPT ![p].imgq = Tail(loc[p].imgq)]
       /\ SetPc(p, "upload")
       /\ UNCHANGED offlineSubmissions

\* The upload was answered with 2xx (sync.ts:440-446).
UploadSucceeded(p) ==
    LET image == Head(loc[p].imgq)
        counted == [pendingImages EXCEPT ![image.localId].uploads = @ + 1]
    IN /\ pendingImages' = UpdateImageStatus(counted, image.localId,
                                             "uploaded", SecureUrl(image.localId))
       /\ loc' = [loc EXCEPT
                    ![p].imgq = Tail(loc[p].imgq),
                    ![p].answers[image.row.questionId].imageUrl =
                        SecureUrl(image.localId)]
       /\ SetPc(p, "upload")
       /\ UNCHANGED offlineSubmissions

UploadFailedSwallowed(p, message) ==
    LET image == Head(loc[p].imgq)
    IN /\ pendingImages' = UpdateImageStatus(pendingImages, image.localId,
                                             "failed", 0)
       /\ loc' = [loc EXCEPT ![p].imgq = Tail(loc[p].imgq)]
       /\ SetPc(p, "upload")
       /\ UNCHANGED offlineSubmissions

UploadFailedAborts(p, message) ==
    LET image == Head(loc[p].imgq)
        sub == Head(loc[p].queue)
    IN /\ pendingImages' = UpdateImageStatus(pendingImages, image.localId,
                                             "failed", 0)
       /\ offlineSubmissions' =
            UpdateSubmissionStatus(offlineSubmissions, sub.localId, "failed",
                                   0, message)
       /\ SetPc(p, "finish")
       /\ UNCHANGED loc

UploadFailedContinues(p, message) ==
    LET image == Head(loc[p].imgq)
        sub == Head(loc[p].queue)
    IN /\ pendingImages' = UpdateImageStatus(pendingImages, image.localId,
                                             "failed", 0)
       /\ offlineSubmissions' =
            UpdateSubmissionStatus(offlineSubmissions, sub.localId, "failed",
                                   0, message)
       /\ loc' = [loc EXCEPT ![p].imgq = Tail(loc[p].imgq)]
       /\ SetPc(p, "upload")

\* The upload failed: the image is marked failed, the exception is thrown on
\* (sync.ts:448-451) and caught by syncSubmission (sync.ts:400-407).
UploadFailed(p, message) ==
    LET image == Head(loc[p].imgq)
        sub == Head(loc[p].queue)
    IN /\ pendingImages' = UpdateImageStatus(pendingImages, image.localId,
                                             "failed", 0)
       /\ offlineSubmissions' =
            UpdateSubmissionStatus(offlineSubmissions, sub.localId, "failed",
                                   0, message)
       /\ NextRecord(p)

\* POST /api/upload is answered (sync.ts:431-451, upload/route.ts:18-73).
UploadDone(p) ==
    /\ pc[p] = "uploading"
    /\ \E outcome \in NetOutcomes :
         IF outcome = "ok"
         THEN UploadSucceeded(p)
         ELSE UploadFailed(p, "message")
    /\ UNCHANGED <<authVars, editVars, snapVars, isSyncing, createdCid, givenImages, gradeVars, srvSubs, srvResponses, posted,
                   envVars>>

\* POST /api/submit is answered (submit/route.ts:166-211, sync.ts:387-407).
PostDone(p) ==
    /\ pc[p] = "post"
    /\ \E outcome \in NetOutcomes :
         LET sub == Head(loc[p].queue)
             res == CreateSubmission(srvSubs, sub.row.clientSubmissionId,
                                     loc[p].answers)
         IN /\ IF outcome \in {"ok", "lost"}
               THEN /\ srvSubs' = res.rows
                    /\ srvResponses' = srvResponses \cup
                         {<<sub.row.clientSubmissionId, res.submission_id>>}
               ELSE UNCHANGED <<srvSubs, srvResponses>>
            /\ IF outcome = "ok"
               THEN /\ offlineSubmissions' =
                         UpdateSubmissionStatus(offlineSubmissions, sub.localId,
                                                "synced", res.submission_id, "null")
                    /\ offlineGrades' =
                         IF loc[p].attached # {}
                         THEN {g \in offlineGrades :
                                 g.submissionId # -sub.localId}
                         ELSE offlineGrades
               ELSE /\ offlineSubmissions' =
                         UpdateSubmissionStatus(offlineSubmissions, sub.localId,
                              "failed", 0, "message")
                    /\ UNCHANGED offlineGrades
            /\ NextRecord(p)
    /\ UNCHANGED <<authVars, editVars, snapVars, isSyncing, pendingImages, createdCid, givenImages, gradeSeq,
                   syncedSubmissions, srvGrading, posted, envVars>>

\* gradesBySubmission (sync.ts:470-476): one entry per key; of several rows
\* with one key the last one read (the highest id) stays.
GradesBody(rows) ==
    {[submissionId |-> g.submissionId, answerId |-> g.answerId, marks |-> g.marks] :
        g \in {h \in rows : \A k \in rows :
                 (k.submissionId = h.submissionId /\ k.answerId = h.answerId)
                    => k.id <= h.id}}

\* completionStatus (sync.ts:479-487).
CompletionStatus(rows, mirror) ==
    [s \in {g.submissionId : g \in rows} \cap DOMAIN mirror |-> mirror[s].status]

PushStartNoWait(p) ==
    /\ pc[p] = "subs"
    /\ loc[p].queue = <<>>
    /\ LET pendingGrades == GetPendingOfflineGrades(offlineGrades)
       IN /\ SetPc(p, "pull")
          /\ loc' = [loc EXCEPT
                       ![p].steps = Append(@, "grade-push"),
                       ![p].snap = IF teacherSession = 0 THEN {} ELSE pendingGrades]
    /\ UNCHANGED <<authVars, editVars, snapVars, isSyncing, recordVars, gradeVars, serverVars, envVars>>

\* The loop over the records is over; step 3 up to its fetch (sync.ts:461-497).
\* With no grade to push or no session pushOfflineGrades returns at once.
PushStart(p) ==
    /\ pc[p] = "subs"
    /\ loc[p].queue = <<>>
    /\ LET pendingGrades == GetPendingOfflineGrades(offlineGrades)
       IN IF pendingGrades = {} \/ teacherSession = 0
          THEN /\ SetPc(p, "pull")
               /\ loc' = [loc EXCEPT ![p].steps = Append(@, "grade-push")]
          ELSE /\ SetPc(p, "pushing")
               /\ loc' = [loc EXCEPT
                            ![p].steps = Append(@, "grade-push"),
                            ![p].snap = pendingGrades,
                            ![p].hints = CompletionStatus(pendingGrades,
                                                          syncedSubmissions)]
    /\ UNCHANGED <<authVars, editVars, snapVars, isSyncing, recordVars, gradeVars, serverVars, envVars>>

AfterGradePushMarksAlways(rows, pendingGrades, outcome) ==
    MarkGradesAsSynced(rows, {g.id : g \in pendingGrades})

\* What pushOfflineGrades does with the answer of its fetch (sync.ts:499-507):
\* a 2xx response marks the rows it sent as synced; any other response, or a
\* rejected fetch, is logged and nothing is written.
AfterGradePush(rows, pendingGrades, outcome) ==
    IF outcome = "ok"
    THEN MarkGradesAsSynced(rows, {g.id : g \in pendingGrades})
    ELSE rows

\* POST /api/grading is answered (grading/route.ts:179-270, sync.ts:499-507).
PushDone(p) ==
    /\ pc[p] = "pushing"
    /\ \E outcome \in NetOutcomes :
         /\ srvGrading' = IF outcome \in {"ok", "lost"}
                          THEN GradingPost(srvGrading, GradesBody(loc[p].snap),
                                           loc[p].hints)
                          ELSE srvGrading
         /\ offlineGrades' = AfterGradePush(offlineGrades, loc[p].snap, outcome)
         /\ loc' = [loc EXCEPT
                      ![p].snap = {},
                      ![p].hints = <<>>,
                      ![p].pushed = IF outcome = "ok" THEN loc[p].snap ELSE {},
                      ![p].unpushed = IF outcome = "ok" THEN {} ELSE loc[p].snap]
    /\ SetPc(p, "pull")
    /\ UNCHANGED <<authVars, editVars, snapVars, isSyncing, recordVars, gradeSeq, syncedSubmissions, serverVars,
                   envVars>>

\* syncGradingData (sync.ts:281-321): no session or a failed fetch leaves the
\* mirror as it is.
SyncGradingData(mirror, outcome) ==
    IF teacherSession # 0 /\ outcome = "ok"
    THEN CacheSyncedSubmissions(mirror, GradingGet(srvGrading))
    ELSE mirror

\* Step 4 (sync.ts:200, 281-349).
PullStep(p) ==
    /\ pc[p] = "pull"
    /\ \E outcome \in NetOutcomes :
         syncedSubmissions' = SyncGradingData(syncedSubmissions, outcome)
    /\ loc' = [loc EXCEPT ![p].steps = Append(@, "grading-pull")]
    /\ SetPc(p, "finish")
    /\ UNCHANGED <<authVars, editVars, snapVars, isSyncing, recordVars, offlineGrades, gradeSeq, srvGrading,
                   serverVars, envVars>>

\* The end of the cycle (sync.ts:202-227): the count of the pending records
\* and the last notification; whether it raises or not, the finally block
\* releases the guard.
FinishCycle(p) ==
    /\ pc[p] = "finish"
    /\ isSyncing' = FALSE
    /\ Return(p)
    /\ UNCHANGED <<authVars, editVars, snapVars, recordVars, gradeVars, serverVars, envVars>>

\* ------------------------------------------------------------- the user
SaveWithImagesNoTransaction(subs, images, row, n, tx) ==
    [subs |-> Append(subs, row),
     images |-> IF tx = "commit"
                THEN images \o
                       [q \in 1..n |-> [submissionLocalId |-> Len(subs) + 1,
                                        questionId |-> q, status |-> "pending",
                                        cloudinaryUrl |-> 0, uploads |-> 0]]
                ELSE images]

\* The transaction of saveSubmissionWithImages (db.ts:544-569): the add of the
\* record and the bulkAdd of its images, one per question 1..n, take effect
\* together at commit; an abort undoes the add.
SaveWithImages(subs, images, row, n, tx) ==
    IF tx = "commit"
    THEN [subs |-> Append(subs, row),
          images |-> images \o
                       [q \in 1..n |-> [submissionLocalId |-> Len(subs) + 1,
                                        questionId |-> q, status |-> "pending",
                                        cloudinaryUrl |-> 0, uploads |-> 0]]]
    ELSE [subs |-> subs, images |-> images]

\* saveSubmissionWithImages (db.ts:540-570), called by handleSubmit when the
\* device is offline (FormRenderer.tsx:236-268) with the image files of the
\* answers to questions 1..n. An aborted transaction raises and handleSubmit
\* shows the error (FormRenderer.tsx:274-276).
SaveSubmissionWithImages(n) ==
    /\ Len(offlineSubmissions) < MaxRecords
    /\ \E tx \in TxOutcomes :
         LET localId == Len(offlineSubmissions) + 1
             uuid == RandomUUID(localId)
             stored == SaveWithImages(offlineSubmissions, pendingImages,
                          [clientSubmissionId |-> uuid, answers |-> InitialAnswers,
                           status |-> "pending", syncedAt |-> "null",
                           serverSubmissionId |-> 0, errorMessage |-> "null"],
                          n, tx)
         IN /\ offlineSubmissions' = stored.subs
            /\ pendingImages' = stored.images
            /\ IF Len(stored.subs) > Len(offlineSubmissions)
               THEN /\ createdCid' = Append(createdCid, uuid)
                    /\ givenImages' = Append(givenImages, 1..n)
               ELSE UNCHANGED <<createdCid, givenImages>>
    /\ UNCHANGED <<authVars, editVars, snapVars, isSyncing, procVars, gradeVars, serverVars, envVars>>

\* saveOfflineGrade (db.ts:688-725), called by handleGradeChange
\* (grading/page.tsx:264-280) for an answer of a cached submission.
SaveOfflineGrade(submissionId, answerId, marks) ==
    /\ teacherSession # 0
    /\ submissionId \in DOMAIN syncedSubmissions
    /\ answerId \in DOMAIN syncedSubmissions[submissionId].marksAwarded
    /\ LET same == {g \in offlineGrades :
                      g.submissionId = submissionId /\ g.answerId = answerId}
       IN IF same # {}
          THEN LET existing == CHOOSE g \in same : \A h \in same : g.id <= h.id
               IN /\ offlineGrades' = (offlineGrades \ {existing}) \cup
                       {[existing EXCEPT !.marks = marks, !.synced = FALSE]}
                  /\ UNCHANGED gradeSeq
          ELSE /\ offlineGrades' = offlineGrades \cup
                    {[id |-> gradeSeq + 1, submissionId |-> submissionId,
                      answerId |-> answerId, marks |-> marks, synced |-> FALSE]}
               /\ gradeSeq' = gradeSeq + 1
    /\ syncedSubmissions' =
         [syncedSubmissions EXCEPT ![submissionId].marksAwarded[answerId] = marks]
    /\ UNCHANGED <<authVars, editVars, snapVars, isSyncing, procVars, recordVars, srvGrading, serverVars, envVars>>

\* saveOfflineGrade (db.ts:688-725) called by handleGradeChange for an answer
\* of a local record: the grading page lists the pending records of the teacher
\* under the negated ids -localId and -questionId (db.ts:775-838) and keeps the
\* list it loaded. No cached submission has a negative id, so the update of
\* the mirror (db.ts:716-724) finds nothing.
SaveLocalGrade(localId, questionId, marks) ==
    /\ teacherSession # 0
    /\ localId \in DOMAIN offlineSubmissions
    /\ questionId \in DOMAIN offlineSubmissions[localId].answers
    /\ LET same == {g \in offlineGrades :
                      g.submissionId = -localId /\ g.answerId = -questionId}
       IN IF same # {}
          THEN LET existing == CHOOSE g \in same : \A h \in same : g.id <= h.id
               IN /\ offlineGrades' = (offlineGrades \ {existing}) \cup
                       {[existing EXCEPT !.marks = marks, !.synced = FALSE]}
                  /\ UNCHANGED gradeSeq
          ELSE /\ offlineGrades' = offlineGrades \cup
                    {[id |-> gradeSeq + 1, submissionId |-> -localId,
                      answerId |-> -questionId, marks |-> marks, synced |-> FALSE]}
               /\ gradeSeq' = gradeSeq + 1
    /\ UNCHANGED <<authVars, editVars, snapVars, isSyncing, procVars, recordVars,
                   syncedSubmissions, srvGrading, serverVars, envVars>>

\* The rows of db.offlineGrades with the compound key [submissionId+answerId].
RowsWithKey(rows, submissionId, answerId) ==
    {g \in rows : g.submissionId = submissionId /\ g.answerId = answerId}

\* .first() of the lookup (db.ts:695-698): the row with the lowest id, 0 for none.
FirstId(rows) ==
    IF rows = {} THEN 0
    ELSE (CHOOSE g \in rows : \A h \in rows : g.id <= h.id).id

\* saveOfflineGrade, first await (db.ts:695-698): handleGradeChange
\* (grading/page.tsx:264-280) calls it on every change of a marks field and
\* nothing orders two calls.
SaveGradeLookup(e, submissionId, answerId, marks) ==
    /\ saving[e].at = "idle"
    /\ teacherSession # 0
    /\ submissionId \in DOMAIN syncedSubmissions
    /\ answerId \in DOMAIN syncedSubmissions[submissionId].marksAwarded
    /\ saving' = [saving EXCEPT ![e] =
                    [at |-> "found", submissionId |-> submissionId,
                     answerId |-> answerId, marks |-> marks,
                     existing |-> FirstId(RowsWithKey(offlineGrades,
                                                      submissionId, answerId))]]
    /\ UNCHANGED <<authVars, isSyncing, procVars, recordVars, gradeVars, serverVars, envVars,
                   snapVars, pagePush>>

\* saveOfflineGrade, second await (db.ts:700-714): update of the row found, or
\* add of a new row.
SaveGradeWrite(e) ==
    /\ saving[e].at = "found"
    /\ IF saving[e].existing # 0
       THEN /\ offlineGrades' =
                 {IF g.id = saving[e].existing
                  THEN [g EXCEPT !.marks = saving[e].marks, !.synced = FALSE]
                  ELSE g : g \in offlineGrades}
            /\ UNCHANGED gradeSeq
       ELSE /\ offlineGrades' = offlineGrades \cup
                 {[id |-> gradeSeq + 1, submissionId |-> saving[e].submissionId,
                   answerId |-> saving[e].answerId, marks |-> saving[e].marks,
                   synced |-> FALSE]}
            /\ gradeSeq' = gradeSeq + 1
    /\ saving' = [saving EXCEPT ![e].at = "written"]
    /\ UNCHANGED <<authVars, isSyncing, procVars, recordVars, syncedSubmissions, srvGrading,
                   serverVars, envVars, snapVars, pagePush>>

\* saveOfflineGrade, the update of the cached submission (db.ts:716-724).
SaveGradeMirror(e) ==
    /\ saving[e].at = "written"
    /\ syncedSubmissions' =
         IF saving[e].submissionId \in DOMAIN syncedSubmissions
         THEN [syncedSubmissions EXCEPT
                 ![saving[e].submissionId].marksAwarded[saving[e].answerId] =
                     saving[e].marks]
         ELSE syncedSubmissions
    /\ saving' = [saving EXCEPT ![e] = NotSaving]
    /\ UNCHANGED <<authVars, isSyncing, procVars, recordVars, offlineGrades, gradeSeq,
                   srvGrading, serverVars, envVars, snapVars, pagePush>>

\* onSyncStatusChange and the function it returns (sync.ts:43-46).
OnSyncStatusChange(callback) ==
    /\ callback \notin syncCallbacks
    /\ syncCallbacks' = syncCallbacks \cup {callback}
    /\ UNCHANGED <<authVars, editVars, snapVars, isSyncing, procVars, recordVars, gradeVars, serverVars,
                   osOnline, schoolsMeta, teacherSession>>

Unsubscribe(callback) ==
    /\ callback \in syncCallbacks
    /\ syncCallbacks' = syncCallbacks \ {callback}
    /\ UNCHANGED <<authVars, editVars, snapVars, isSyncing, procVars, recordVars, gradeVars, serverVars,
                   osOnline, schoolsMeta, teacherSession>>

\* saveTeacherSession and clearTeacherSession (auth.ts:84-94, 99-101).
SaveTeacherSession ==
    /\ teacherSession = 0
    /\ teacherSession' = 1
    /\ sessionTbl' = PutTeacherSession(sessionTbl, 1, 1,
                                       EncryptPassword(<<97>>).value)
    /\ UNCHANGED <<knownUsers, srvUsers, login, verified, lastOk, lastOnline, editVars, snapVars, isSyncing, procVars, recordVars, gradeVars, serverVars,
                   osOnline, syncCallbacks, schoolsMeta>>

ClearTeacherSession ==
    /\ teacherSession # 0
    /\ teacherSession' = 0
    /\ sessionTbl' = DeleteTeacherSession(sessionTbl)
    /\ UNCHANGED <<knownUsers, srvUsers, login, verified, lastOk, lastOnline, editVars, snapVars, isSyncing, procVars, recordVars, gradeVars, serverVars,
                   osOnline, syncCallbacks, schoolsMeta>>

\* 24 hours pass since the schools were synced (db.ts:343-344).
DayPasses ==
    /\ schoolsMeta = "fresh"
    /\ schoolsMeta' = "stale"
    /\ UNCHANGED <<authVars, editVars, snapVars, isSyncing, procVars, recordVars, gradeVars, serverVars,
                   osOnline, syncCallbacks, teacherSession>>

\* POST /api/submit handles once more a request it has handled before: the
\* same correlation id with the same payload (submit/route.ts:166-211).
ResendSubmit(i) ==
    /\ i \in DOMAIN srvSubs
    /\ srvSubs[i].posts < MaxPosts
    /\ LET res == CreateSubmission(srvSubs, srvSubs[i].client_submission_id,
                                   srvSubs[i].answers)
       IN /\ srvSubs' = res.rows
          /\ srvResponses' = srvResponses \cup
               {<<srvSubs[i].client_submission_id, res.submission_id>>}
    /\ UNCHANGED <<authVars, editVars, snapVars, isSyncing, procVars, recordVars, gradeVars, envVars,
                   posted>>

\* The page is closed or reloaded, or the browser is stopped, while handlers
\* run: every invocation ends where it is and the module state of sync.ts
\* starts again (isSyncing false, sync.ts:26; no callback, sync.ts:30), while
\* IndexedDB and the server stay as they are. A POST that was in flight may or
\* may not have reached the server.
Reload ==
    /\ isSyncing' = FALSE
    /\ syncCallbacks' = {}
    /\ pc' = [p \in Procs |-> "idle"]
    /\ loc' = [p \in Procs |-> NoLocals]
    /\ saving' = [e \in Savers |-> NotSaving]
    /\ pagePush' = [c \in PageSyncs |-> NoPageSync]
    /\ refresh' = [c \in Callers |-> NoRefresh]
    /\ login' = [l \in Logins |-> NoLogin]
    /\ \E reached \in BOOLEAN :
         /\ IF reached /\ \E p \in Procs : pc[p] = "post"
            THEN LET p == CHOOSE q \in Procs : pc[q] = "post"
                     sub == Head(loc[p].queue)
                     res == CreateSubmission(srvSubs, sub.row.clientSubmissionId,
                                             loc[p].answers)
                 IN /\ srvSubs' = res.rows
                    /\ srvResponses' = srvResponses \cup
                         {<<sub.row.clientSubmissionId, res.submission_id>>}
            ELSE UNCHANGED <<srvSubs, srvResponses>>
         /\ IF reached /\ \E p \in Procs : pc[p] = "pushing"
            THEN LET p == CHOOSE q \in Procs : pc[q] = "pushing"
                 IN srvGrading' = GradingPost(srvGrading, GradesBody(loc[p].snap),
                                              loc[p].hints)
            ELSE UNCHANGED srvGrading
    /\ UNCHANGED <<recordVars, offlineGrades, gradeSeq, syncedSubmissions, posted,
                   osOnline, schoolsMeta, teacherSession, cachedSchools,
                   cachedAssessments, srvSchools, srvAssessments, sessionTbl,
                   knownUsers, srvUsers, verified, lastOk, lastOnline>>

\* ------------------------------------------------------------- Next
\* A handler up to the loop over the pending records.
\* forceSyncSchools up to the fetch of syncSchools (sync.ts:78-83, 230-244):
\* it raises when navigator.onLine is false and asks no timestamp.
ForceSyncSchools(c) ==
    /\ refresh[c].at = "idle"
    /\ osOnline
    /\ refresh' = [refresh EXCEPT ![c] = [at |-> "schools", check |-> LinkTested]]
    /\ UNCHANGED <<authVars, editVars, cachedSchools, cachedAssessments, srvSchools,
                   srvAssessments, isSyncing, procVars, recordVars, gradeVars,
                   serverVars, envVars>>

\* GET /api/schools of a forced refresh is answered (sync.ts:244-253).
ForceSchoolsDone(c) ==
    /\ refresh[c].at = "schools"
    /\ \E outcome \in NetOutcomes, tx \in TxOutcomes :
         IF outcome = "ok"
         THEN /\ cachedSchools' = CacheSchools(cachedSchools, srvSchools, tx)
              /\ schoolsMeta' = MarkSchoolsSynced(schoolsMeta, tx)
         ELSE UNCHANGED <<cachedSchools, schoolsMeta>>
    /\ refresh' = [refresh EXCEPT ![c] = NoRefresh]
    /\ UNCHANGED <<authVars, editVars, cachedAssessments, srvSchools, srvAssessments,
                   isSyncing, procVars, recordVars, gradeVars, serverVars,
                   osOnline, syncCallbacks, teacherSession>>

\* forceSyncAssessments up to the fetch of syncAssessments (sync.ts:88-93,
\* 256-268).
ForceSyncAssessments(c) ==
    /\ refresh[c].at = "idle"
    /\ osOnline
    /\ refresh' = [refresh EXCEPT ![c] = [at |-> "assessments", check |-> LinkTested]]
    /\ UNCHANGED <<authVars, editVars, cachedSchools, cachedAssessments, srvSchools,
                   srvAssessments, isSyncing, procVars, recordVars, gradeVars,
                   serverVars, envVars>>

\* GET /api/assessments is answered (sync.ts:268-274); a failure is thrown to
\* the caller.
ForceAssessmentsDone(c) ==
    /\ refresh[c].at = "assessments"
    /\ \E outcome \in NetOutcomes, tx \in TxOutcomes :
         cachedAssessments' =
            IF outcome = "ok"
            THEN CacheAssessments(cachedAssessments, srvAssessments, tx)
            ELSE cachedAssessments
    /\ refresh' = [refresh EXCEPT ![c] = NoRefresh]
    /\ UNCHANGED <<authVars, editVars, cachedSchools, srvSchools, srvAssessments,
                   isSyncing, procVars, recordVars, gradeVars, serverVars,
                   envVars>>

\* The schools a teacher may see change on the server.
ServerSchoolsChange ==
    /\ \E schools \in Catalogues \ {srvSchools} : srvSchools' = schools
    /\ UNCHANGED <<authVars, editVars, cachedSchools, cachedAssessments, srvAssessments,
                   refresh, isSyncing, procVars, recordVars, gradeVars,
                   serverVars, envVars>>

\* The assessments change on the server.
ServerAssessmentsChange ==
    /\ \E assessments \in Catalogues \ {srvAssessments} :
          srvAssessments' = assessments
    /\ UNCHANGED <<authVars, editVars, cachedSchools, cachedAssessments, srvSchools,
                   refresh, isSyncing, procVars, recordVars, gradeVars,
                   serverVars, envVars>>

\* syncPendingGrades of the grading page up to its fetch
\* (grading/page.tsx:196-223): the page's online flag and its session are
\* tested, isSyncing is not; the rows read are posted with no completionStatus.
SyncPendingGrades(c) ==
    /\ pagePush[c].at = "idle"
    /\ osOnline
    /\ teacherSession # 0
    /\ LET pendingGrades == GetPendingOfflineGrades(offlineGrades)
       IN /\ pendingGrades # {}
          /\ pagePush' = [pagePush EXCEPT
                            ![c] = [at |-> "posting", snap |-> pendingGrades]]
    /\ UNCHANGED <<authVars, saving, snapVars, isSyncing, procVars, recordVars,
                   gradeVars, serverVars, envVars>>

\* POST /api/grading of the page is answered (grading/page.tsx:225-235,
\* grading/route.ts:179-270): on 2xx the rows read are marked synced and
\* loadSubmissions is called.
SyncPendingGradesDone(c) ==
    /\ pagePush[c].at = "posting"
    /\ \E outcome \in NetOutcomes :
         /\ srvGrading' = IF outcome \in {"ok", "lost"}
                          THEN GradingPost(srvGrading, GradesBody(pagePush[c].snap),
                                           <<>>)
                          ELSE srvGrading
         /\ offlineGrades' = IF outcome = "ok"
                             THEN MarkGradesAsSynced(offlineGrades,
                                                     {g.id : g \in pagePush[c].snap})
                             ELSE offlineGrades
         /\ pagePush' = [pagePush EXCEPT
                           ![c] = IF outcome = "ok"
                                  THEN [at |-> "loading", snap |-> {}]
                                  ELSE NoPageSync]
    /\ UNCHANGED <<authVars, saving, snapVars, isSyncing, procVars, recordVars,
                   gradeSeq, syncedSubmissions, serverVars, envVars>>

\* loadSubmissions after the push (grading/page.tsx:77-130): GET /api/grading
\* is answered and the submissions fetched are cached; a failure falls back to
\* the cache.
LoadSubmissions(c) ==
    /\ pagePush[c].at = "loading"
    /\ \E outcome \in NetOutcomes :
         syncedSubmissions' =
            IF outcome = "ok"
            THEN CacheSyncedSubmissions(syncedSubmissions, GradingGet(srvGrading))
            ELSE syncedSubmissions
    /\ pagePush' = [pagePush EXCEPT ![c] = NoPageSync]
    /\ UNCHANGED <<authVars, saving, snapVars, isSyncing, procVars, recordVars,
                   offlineGrades, gradeSeq, srvGrading, serverVars, envVars>>

\* The bodies of POST /api/grading: marks for answers of their submissions, one
\* per answer (sync.ts:470-476).
GradeBodies ==
    {body \in SUBSET [submissionId : GradeSubs, answerId : GradeAnswers,
                      marks : 0..MaxMarks] :
        /\ body # {}
        /\ \A b, c \in body :
              (b.submissionId = c.submissionId /\ b.answerId = c.answerId) => b = c}

\* completionStatus: none, or a status for every submission.
GradeHints == {<<>>} \cup [GradeSubs -> GradeStatuses]

\* POST /api/grading handles a request (grading/route.ts:179-270).
PostGrading(body, hints) ==
    /\ posted.times = 0
    /\ srvGrading' = GradingPost(srvGrading, body, hints)
    /\ posted' = [times |-> 1, body |-> body, hints |-> hints,
                  before |-> srvGrading,
                  once |-> GradingPost(srvGrading, body, hints)]
    /\ UNCHANGED <<authVars, editVars, snapVars, isSyncing, procVars, recordVars,
                   offlineGrades, gradeSeq, syncedSubmissions, srvSubs,
                   srvResponses, envVars>>

\* The same request arrives again.
RetryGrading ==
    /\ posted.times \in 1..(MaxPosts - 1)
    /\ srvGrading' = GradingPost(srvGrading, posted.body, posted.hints)
    /\ posted' = [posted EXCEPT !.times = @ + 1]
    /\ UNCHANGED <<authVars, editVars, snapVars, isSyncing, procVars, recordVars,
                   offlineGrades, gradeSeq, syncedSubmissions, srvSubs,
                   srvResponses, envVars>>

\* The session and the history after a login that returns success.
LoggedIn(userId, username, storedPassword, password) ==
    /\ sessionTbl' = PutTeacherSession(sessionTbl, userId, username, storedPassword)
    /\ teacherSession' = userId
    /\ lastOk' = [userId |-> userId, password |-> password]

\* loginTeacher up to its first request (auth.ts:116-167). With
\* navigator.onLine false the attempt is decided here from db.knownUsers
\* (auth.ts:120-159); otherwise POST /api/auth/login is issued. reported is
\* history: what checkActualConnectivity would return at this moment, probe
\* being the fate of its HEAD request.
LoginTeacher(l, username, password, probe) ==
    /\ login[l].at \in {"idle", "done"}
    /\ LET reported == CheckActualConnectivity(osOnline, probe)
           known == GetKnownUser(knownUsers, username)
           call == [at |-> "done", username |-> username, password |-> password,
                    reported |-> reported, offline |-> ~osOnline, result |-> "none"]
       IN IF osOnline
          THEN /\ login' = [login EXCEPT ![l] = [call EXCEPT !.at = "fetching"]]
               /\ UNCHANGED <<sessionTbl, teacherSession, lastOk>>
          ELSE IF known = {}
          THEN /\ login' = [login EXCEPT ![l] = [call EXCEPT !.result = "not_found"]]
               /\ UNCHANGED <<sessionTbl, teacherSession, lastOk>>
          ELSE LET knownUser == CHOOSE r \in known : TRUE
                   stored == EncryptPassword(password)
               IN IF password # DecryptPassword(knownUser.storedPassword)
                  THEN /\ login' = [login EXCEPT
                                      ![l] = [call EXCEPT !.result = "invalid_password"]]
                       /\ UNCHANGED <<sessionTbl, teacherSession, lastOk>>
                  ELSE IF ~stored.ok
                  THEN /\ login' = [login EXCEPT
                                      ![l] = [call EXCEPT !.result = "error"]]
                       /\ UNCHANGED <<sessionTbl, teacherSession, lastOk>>
                  ELSE /\ login' = [login EXCEPT ![l] = [call EXCEPT !.result = "ok"]]
                       /\ LoggedIn(knownUser.userId, knownUser.username,
                                   stored.value, password)
    /\ UNCHANGED <<syncVars, osOnline, syncCallbacks, schoolsMeta, knownUsers,
                   srvUsers, verified, lastOnline>>

\* POST /api/auth/login is answered (auth.ts:169-204, login/route.ts:38-110).
\* encryptPassword raising inside saveTeacherSession ends the login in the
\* catch of loginTeacher with nothing stored.
LoginResponse(l) ==
    /\ login[l].at = "fetching"
    /\ \E outcome \in NetOutcomes :
         LET username == login[l].username
             password == login[l].password
             users == VerifyLogin(srvUsers, username, password)
             stored == EncryptPassword(password)
             done(result) == [login EXCEPT ![l].at = "done", ![l].result = result]
         IN IF outcome = "ok" /\ users # {} /\ stored.ok
            THEN LET userId == CHOOSE u \in users : TRUE
                 IN /\ LoggedIn(userId, srvUsers[userId].username, stored.value,
                                password)
                    /\ knownUsers' = SaveKnownUser(knownUsers, userId,
                                                   srvUsers[userId].username,
                                                   stored.value)
                    /\ lastOnline' = [lastOnline EXCEPT ![username] =
                                         [known |-> TRUE, password |-> password]]
                    /\ login' = done("ok")
            ELSE /\ login' = done(IF outcome = "ok" /\ users = {}
                                  THEN "rejected" ELSE "error")
                 /\ UNCHANGED <<sessionTbl, teacherSession, lastOk, knownUsers,
                                lastOnline>>
    /\ UNCHANGED <<syncVars, osOnline, syncCallbacks, schoolsMeta, srvUsers,
                   verified>>

\* logoutTeacher (auth.ts:210-212).
LogoutTeacher ==
    /\ sessionTbl' = DeleteTeacherSession(sessionTbl)
    /\ teacherSession' = 0
    /\ sessionTbl' # sessionTbl
    /\ UNCHANGED <<syncVars, osOnline, syncCallbacks, schoolsMeta, knownUsers,
                   srvUsers, login, verified, lastOk, lastOnline>>

\* verifyStoredPassword (auth.ts:219-230).
VerifyStoredPassword(password) ==
    /\ LET session == GetTeacherSession(sessionTbl)
       IN verified' =
            [called |-> TRUE, password |-> password,
             result |-> /\ session # {}
                        /\ password = DecryptPassword(
                              (CHOOSE r \in session : TRUE).storedPassword)]
    /\ UNCHANGED <<syncVars, envVars, sessionTbl, knownUsers, srvUsers, login,
                   lastOk, lastOnline>>

\* The password of a user is changed on the server.
ServerPasswordChange(userId, password) ==
    /\ srvUsers[userId].password # password
    /\ srvUsers' = [srvUsers EXCEPT ![userId].password = password]
    /\ UNCHANGED <<syncVars, envVars, sessionTbl, knownUsers, login, verified,
                   lastOk, lastOnline>>

\* The 'online' event on the login page (login/page.tsx:36-39): no sync
\* listener is registered there.
LoginPageHandleOnline ==
    /\ ~osOnline
    /\ osOnline' = TRUE
    /\ UNCHANGED <<syncVars, authVars, syncCallbacks, schoolsMeta, teacherSession>>

Arrivals(p) ==
    \/ TriggerSync(p)
    \/ HandleFocus(p)
    \/ HandleOnline(p)
    \/ SettleDone(p)
    \/ ProbeDone(p)
    \/ AfterCheck(p)
    \/ SchoolsStep(p)

\* Step 2 of a cycle.
RecordSteps(p) ==
    \/ BeginSubmission(p)
    \/ UploadNext(p)
    \/ UploadDone(p)
    \/ PostDone(p)

\* Steps 3 and 4 of a cycle with nothing to push.
LastSteps(p) ==
    \/ PushStart(p)
    \/ PullStep(p)
    \/ FinishCycle(p)

\* Records are made and synced, no grade is ever given; the server may see a
\* request twice.
NextRecords ==
    \/ \E p \in Procs : Arrivals(p) \/ RecordSteps(p) \/ LastSteps(p)
    \/ GoOffline
    \/ \E n \in 0..MaxImages : SaveSubmissionWithImages(n)
    \/ \E i \in 1..MaxRecords : ResendSubmit(i)

\* Grades are given and synced, no record is ever made; the session and the
\* clock change.
NextGrades ==
    \/ \E p \in Procs : Arrivals(p) \/ LastSteps(p) \/ PushDone(p)
    \/ GoOffline
    \/ DayPasses
    \/ \E s \in GradeSubs, a \in GradeAnswers, m \in Marks : SaveOfflineGrade(s, a, m)
    \/ SaveTeacherSession
    \/ ClearTeacherSession

\* One record and one grade wait in the store; cycles run while the link and
\* the status callbacks come and go.
NextGuard ==
    \/ \E p \in Procs : Arrivals(p) \/ RecordSteps(p) \/ LastSteps(p) \/ PushDone(p)
    \/ GoOffline
    \/ \E c \in Callbacks : OnSyncStatusChange(c)
    \/ \E c \in Callbacks : Unsubscribe(c)

\* The record in the store is synced; none is made.
NextAssets ==
    \/ \E p \in Procs : Arrivals(p) \/ RecordSteps(p) \/ LastSteps(p)
    \/ GoOffline

\* Cycles with nothing queued, forced refreshes, a changing server.
NextSnapshots ==
    \/ \E p \in Procs : Arrivals(p) \/ LastSteps(p)
    \/ GoOffline
    \/ DayPasses
    \/ \E c \in Callers :
          \/ ForceSyncSchools(c)
          \/ ForceSchoolsDone(c)
          \/ ForceSyncAssessments(c)
          \/ ForceAssessmentsDone(c)
    \/ ServerSchoolsChange
    \/ ServerAssessmentsChange

\* Logins, logouts and password checks on a device that goes offline and
\* online; no cycle runs.
NextAuth ==
    \/ \E l \in Logins, username \in Usernames, password \in Passwords,
          probe \in {"ok", "timeout"} :
          LoginTeacher(l, username, password, probe)
    \/ \E l \in Logins : LoginResponse(l)
    \/ LogoutTeacher
    \/ \E password \in Passwords : VerifyStoredPassword(password)
    \/ \E userId \in UserIds, password \in Passwords :
          ServerPasswordChange(userId, password)
    \/ GoOffline
    \/ LoginPageHandleOnline

\* Grades are given and pushed by the cycle and by the grading page.
NextPage ==
    \/ \E p \in Procs : Arrivals(p) \/ LastSteps(p) \/ PushDone(p)
    \/ GoOffline
    \/ \E s \in GradeSubs, a \in GradeAnswers, m \in Marks : SaveOfflineGrade(s, a, m)
    \/ \E c \in PageSyncs :
          \/ SyncPendingGrades(c)
          \/ SyncPendingGradesDone(c)
          \/ LoadSubmissions(c)

\* POST /api/grading handles a request and its retries.
NextGrading ==
    \/ \E body \in GradeBodies, hints \in GradeHints : PostGrading(body, hints)
    \/ RetryGrading

\* Grades are saved by calls whose steps interleave; no cycle runs.
NextEdits ==
    \/ \E e \in Savers, s \in GradeSubs, a \in GradeAnswers, m \in Marks :
          SaveGradeLookup(e, s, a, m)
    \/ \E e \in Savers : SaveGradeWrite(e)
    \/ \E e \in Savers : SaveGradeMirror(e)

\* One record waits in the store; the teacher grades its answers on the
\* grading page while cycles run.
NextLocal ==
    \/ \E p \in Procs : Arrivals(p) \/ RecordSteps(p) \/ LastSteps(p) \/ PushDone(p)
    \/ GoOffline
    \/ \E i \in 1..MaxRecords, q \in GradedQuestions, m \in Marks :
          SaveLocalGrade(i, q, m)

\* Records are made and synced while the page may be reloaded at any moment.
NextRestart ==
    \/ \E p \in Procs : Arrivals(p) \/ RecordSteps(p) \/ LastSteps(p)
    \/ GoOffline
    \/ \E n \in 0..MaxImages : SaveSubmissionWithImages(n)
    \/ Reload

Next ==
    NextRecords \/ NextGrades \/ NextGuard \/ NextEdits \/ NextAssets \/ NextSnapshots
        \/ NextAuth \/ NextPage \/ NextGrading \/ NextLocal \/ NextRestart

Spec == Init /\ [][Next]_vars
SpecRecords == Init /\ [][NextRecords]_vars
SpecGrades == Init /\ [][NextGrades]_vars
SpecGuard == InitGuard /\ [][NextGuard]_vars
SpecEdits == Init /\ [][NextEdits]_vars
SpecAssets == InitAssets /\ [][NextAssets]_vars
SpecSnapshots == Init /\ [][NextSnapshots]_vars
SpecAuth == Init /\ [][NextAuth]_vars
SpecPage == Init /\ [][NextPage]_vars
SpecGrading == InitGrading /\ [][NextGrading]_vars
SpecLocal == InitLocal /\ [][NextLocal]_vars
SpecRestart == Init /\ [][NextRestart]_vars

\* Cycles keep running: a handler that can start a probe does, and every
\* await of a running invocation is answered (a fetch settles, an IndexedDB
\* request completes), so its next stretch of code runs.
FairCycles ==
    \A p \in Procs :
       /\ WF_vars(TriggerSync(p))
       /\ WF_vars(SettleDone(p))
       /\ WF_vars(ProbeDone(p))
       /\ WF_vars(AfterCheck(p))
       /\ WF_vars(SchoolsStep(p))
       /\ WF_vars(RecordSteps(p))
       /\ WF_vars(LastSteps(p))

SpecRestartLive == SpecRestart /\ FairCycles

\* ------------------------------------------------------------- properties
RecordIds == DOMAIN offlineSubmissions

ImagesOf(localId) ==
    {j \in DOMAIN pendingImages : pendingImages[j].submissionLocalId = localId}

MutualExclusion ==
    /\ Cardinality({p \in Procs : InCycle(p)}) <= 1
    /\ (\E p \in Procs : InCycle(p)) => isSyncing

\* A triggerSync call or a focus event that finds isSyncing set does nothing:
\* the only invocation that leaves idle while a cycle runs is the handler of
\* an 'online' event, which starts its settle delay.
NoOpWhileRunning ==
    \A p \in Procs :
        (pc[p] = "idle" /\ isSyncing) => pc'[p] \in {"idle", "settle"}

C2_SyncedIffServerId ==
    \A r \in RecordIds :
        (offlineSubmissions[r].status = "synced")
            <=> (offlineSubmissions[r].serverSubmissionId # 0)

\* One record was synced and another failed.
C2_Witness ==
    \E r, t \in RecordIds :
        /\ offlineSubmissions[r].status = "synced"
        /\ offlineSubmissions[r].serverSubmissionId # 0
        /\ offlineSubmissions[t].status = "failed"

GradeRow(rows, key) ==
    CHOOSE g \in rows : <<g.submissionId, g.answerId>> = key

MirrorMarks(mirror, key) == mirror[key[1]].marksAwarded[key[2]]

\* C3: when a cycle ends, every edit that was unsynced when the cycle started is
\* either synced with the mirror showing the edited value, or still unsynced
\* with the mirror still showing the local value.
C3_EditSurvivesCycle ==
    [][\A p \in Procs :
          (pc[p] = "finish" /\ pc'[p] = "idle") =>
             \A key \in loc[p].startKeys :
                LET g == GradeRow(offlineGrades', key)
                IN \/ /\ g.synced
                      /\ MirrorMarks(syncedSubmissions', key) = g.marks
                   \/ /\ ~g.synced
                      /\ MirrorMarks(syncedSubmissions', key) = g.marks]_vars

\* C4: the pull leaves the mirror's marksAwarded as it is for every answer
\* that has an unsynced edit in the store.
C4_PullKeepsUnsyncedEdits ==
    [][\A p \in Procs :
          (pc[p] = "pull" /\ pc'[p] = "finish") =>
             \A key \in UnsyncedKeys(offlineGrades) :
                MirrorMarks(syncedSubmissions', key)
                    = MirrorMarks(syncedSubmissions, key)]_vars

\* C5: a cycle has called syncSubmission, by the end of its loop over the
\* records, for every record that was marked failed when the cycle started.
C5_FailedAttemptedAgain ==
    \A p \in Procs :
        pc[p] \in {"pushing", "pull", "finish"} => loc[p].failedAtStart \subseteq loc[p].attempted

\* C6: no synced record owns a failed image; when POST /api/submit is issued
\* for a record, each of its images is uploaded with a URL and the payload
\* carries that URL for the image's question.
C6_PostAfterUploads ==
    /\ \A r \in RecordIds :
          offlineSubmissions[r].status = "synced" =>
             \A j \in ImagesOf(r) : pendingImages[j].status # "failed"
    /\ \A p \in Procs :
          pc[p] = "post" =>
             \A j \in ImagesOf(Head(loc[p].queue).localId) :
                /\ pendingImages[j].status = "uploaded"
                /\ pendingImages[j].cloudinaryUrl # 0
                /\ loc[p].answers[pendingImages[j].questionId].imageUrl
                      = pendingImages[j].cloudinaryUrl

\* The POST of a record with an image is in flight while another record has
\* failed on its upload.
C6_Witness ==
    \E p \in Procs :
        /\ pc[p] = "post"
        /\ ImagesOf(Head(loc[p].queue).localId) # {}
        /\ \E j \in DOMAIN pendingImages : pendingImages[j].status = "failed"

\* C7: the server holds at most one row per correlation id, every response to
\* a request with that id carries the same submission id, and that id is the
\* one a synced record stores.
C7_OneRowPerCorrelationId ==
    /\ \A i, j \in DOMAIN srvSubs :
          srvSubs[i].client_submission_id = srvSubs[j].client_submission_id
             => i = j
    /\ \A a, b \in srvResponses : a[1] = b[1] => a[2] = b[2]
    /\ \A r \in RecordIds :
          offlineSubmissions[r].status = "synced" =>
             <<offlineSubmissions[r].clientSubmissionId,
               offlineSubmissions[r].serverSubmissionId>> \in srvResponses

\* The server has handled the request of a synced record twice.
C7_Witness ==
    \E i \in DOMAIN srvSubs, r \in RecordIds :
        /\ srvSubs[i].posts >= 2
        /\ offlineSubmissions[r].clientSubmissionId = srvSubs[i].client_submission_id
        /\ offlineSubmissions[r].status = "synced"

\* C8: a record carries the correlation id drawn at its creation, and so do
\* every POST /api/submit in flight and every row the server holds.
C8_CorrelationIdStable ==
    /\ \A r \in RecordIds :
          offlineSubmissions[r].clientSubmissionId = createdCid[r]
    /\ \A p \in Procs :
          pc[p] = "post" =>
             Head(loc[p].queue).row.clientSubmissionId
                = createdCid[Head(loc[p].queue).localId]
    /\ \A i \in DOMAIN srvSubs :
          \E r \in RecordIds : srvSubs[i].client_submission_id = createdCid[r]

\* A POST is in flight after the status of another record was updated to
\* failed or synced.
C8_Witness ==
    \E p \in Procs, r \in RecordIds :
        /\ pc[p] = "post"
        /\ r # Head(loc[p].queue).localId
        /\ offlineSubmissions[r].status \in {"failed", "synced"}

\* C9: checkActualConnectivity answers true exactly when navigator.onLine was
\* true and the probe was answered with a success status before the timeout;
\* with navigator.onLine false no probe is issued.
C9_ConnectivityResult ==
    \A p \in Procs :
        pc[p] = "checked" =>
           LET c == loc[p].check
           IN /\ c.result <=> (c.os /\ c.issued /\ c.outcome = "ok")
              /\ ~c.os => ~c.issued
              /\ c.outcome \in {"timeout", "net_error", "http_error"} => ~c.result

\* One check has answered true and another was made with navigator.onLine
\* false.
C9_Witness ==
    \E p, q \in Procs :
        /\ pc[p] = "checked" /\ loc[p].check.result
        /\ pc[q] = "checked" /\ ~loc[q].check.os

\* C10: the guard is set only while an invocation is inside performSync: a
\* cycle that has ended, whatever failed, has released it.
C10_GuardReleased ==
    isSyncing => \E p \in Procs : InCycle(p)

\* The sub-steps of a cycle in the order of performSync (sync.ts:172-200).
StepOrder == <<"schools", "submissions", "grade-push", "grading-pull">>

IsPrefix(a, b) == Len(a) <= Len(b) /\ a = SubSeq(b, 1, Len(a))

Started(p, step) == \E i \in DOMAIN loc[p].steps : loc[p].steps[i] = step

\* C11: the sub-steps a cycle has started are a beginning of schools (if due),
\* submissions, grade-push, grading-pull; while a record is being synced no
\* later sub-step has started; while the grade-push request is in flight the
\* grading-pull has not started, and once the grading-pull is due or has
\* started no grade-push request is in flight.
C11_StepsInOrder ==
    \A p \in Procs :
        InCycle(p) =>
           LET st == loc[p].steps
           IN /\ IsPrefix(st, StepOrder) \/ IsPrefix(st, Tail(StepOrder))
              /\ pc[p] \in {"upload", "uploading", "post"} =>
                    st[Len(st)] = "submissions"
              /\ pc[p] = "pushing" =>
                    st[Len(st)] = "grade-push" /\ loc[p].snap # {}
              /\ (pc[p] = "pull" \/ Started(p, "grading-pull")) =>
                    loc[p].snap = {}

\* A cycle has run all four sub-steps and its grade-push was accepted.
C11_Witness ==
    \E p \in Procs :
        /\ pc[p] = "finish"
        /\ loc[p].steps = StepOrder
        /\ \E g \in offlineGrades : g.synced

\* A cycle that reaches its end has run submissions, grade-push and grading-pull.
AllStepsRun ==
    \A p \in Procs :
        pc[p] = "finish" => loc[p].steps \in {StepOrder, Tail(StepOrder)}

\* An invocation leaves its cycle only at the end of performSync, or at the
\* schools step when the notification of that step raises.
LeavesAtEndOnly ==
    \A p \in Procs :
        (InCycle(p) /\ ~(pc'[p] \in CycleStages)) =>
           \/ pc[p] = "finish"
           \/ pc[p] = "schools" /\ ShouldSyncSchools /\ NotifyRaises

\* C12: whatever request fails in a sub-step (the schools fetch, an upload or
\* the POST of a record, the grade-push), the cycle goes on: it ends only at
\* the end of performSync, having run every later sub-step.
C12_FailureDoesNotAbort == []AllStepsRun /\ [][LeavesAtEndOnly]_vars

\* A cycle is at its end after its schools fetch failed, its record failed and
\* its grade-push failed.
C12_Witness ==
    \E p \in Procs :
        /\ pc[p] = "finish"
        /\ loc[p].steps = StepOrder
        /\ schoolsMeta = "none"
        /\ \E r \in loc[p].attempted : offlineSubmissions[r].status = "failed"
        /\ loc[p].startKeys \cap UnsyncedKeys(offlineGrades) # {}

\* Past the loop over the records, syncSubmission has been called for every
\* record getPendingSubmissions returned.
AllPendingAttempted ==
    \A p \in Procs :
        pc[p] \in {"pushing", "pull", "finish"} =>
           loc[p].pendingAtStart \subseteq loc[p].attempted

FailedHasMessage ==
    \A r \in RecordIds :
        offlineSubmissions[r].status = "failed" =>
           offlineSubmissions[r].errorMessage # "null"

\* The answer to an upload or to the POST of a record changes no other record.
OnlyOwnRecordChanges ==
    \A p \in Procs :
        pc[p] \in {"uploading", "post"} =>
           \A r \in RecordIds :
              r # Head(loc[p].queue).localId =>
                 offlineSubmissions'[r] = offlineSubmissions[r]

\* C13: a record whose upload or POST fails is marked failed with the message
\* and no other record is changed; every record that was pending when the
\* cycle read them is attempted in that cycle.
C13_FailureIsolated ==
    [](AllPendingAttempted /\ FailedHasMessage) /\ [][OnlyOwnRecordChanges]_vars

\* In one cycle the first record failed and the second was synced.
C13_Witness ==
    \E p \in Procs, r, t \in RecordIds :
        /\ pc[p] = "finish"
        /\ r < t
        /\ {r, t} \subseteq loc[p].pendingAtStart
        /\ offlineSubmissions[r].status = "failed"
        /\ offlineSubmissions[t].status = "synced"

\* C14: the store holds at most one offlineGrades row for a key
\* (submissionId, answerId).
C14_OneRowPerKey ==
    \A g, h \in offlineGrades :
        (g.submissionId = h.submissionId /\ g.answerId = h.answerId) => g = h

ImageIds == DOMAIN pendingImages

\* C15: a stored image has status uploaded exactly when its URL is not null.
C15_UploadedIffUrl ==
    \A i \in ImageIds :
        pendingImages[i].status = "uploaded" <=> pendingImages[i].cloudinaryUrl # 0

\* A cycle uploaded one image of a record and failed to upload the next.
C15_Witness ==
    \E p \in Procs, i, j \in ImageIds :
        /\ InCycle(p)
        /\ i < j
        /\ pendingImages[i].submissionLocalId \in loc[p].attempted
        /\ pendingImages[j].submissionLocalId \in loc[p].attempted
        /\ i \notin loc[p].skipped
        /\ pendingImages[i].status = "uploaded"
        /\ pendingImages[i].cloudinaryUrl # 0
        /\ pendingImages[j].status = "failed"
        /\ pendingImages[j].cloudinaryUrl = 0

\* The cycle is about to work on an image that is stored as uploaded.
AtUploaded(p) ==
    /\ pc[p] = "upload"
    /\ loc[p].imgq # <<>>
    /\ Head(loc[p].imgq).row.status = "uploaded"

\* The step past an uploaded image sends no request, leaves the stored images
\* as they are and puts the stored URL into the payload.
SkipsUploaded ==
    \A p \in Procs :
        (AtUploaded(p) /\ (pc'[p] # pc[p] \/ loc'[p] # loc[p])) =>
            /\ pc'[p] = "upload"
            /\ pendingImages' = pendingImages
            /\ loc'[p].imgq = Tail(loc[p].imgq)
            /\ LET row == Head(loc[p].imgq).row
               IN loc'[p].answers[row.questionId].imageUrl = row.cloudinaryUrl

\* No image was uploaded with success more than once.
UploadedOnce == \A i \in ImageIds : pendingImages[i].uploads <= 1

\* C16: an image stored as uploaded with its URL is passed over by the cycle:
\* no upload request, the stored images unchanged, the stored URL put into the
\* payload; so no image is uploaded with success more than once.
C16_UploadedIsSkipped == []UploadedOnce /\ [][SkipsUploaded]_vars

\* A cycle has passed over the uploaded image of a record and sent the record
\* with the stored URL.
C16_Witness ==
    \E p \in Procs, i \in ImageIds :
        /\ i \in loc[p].skipped
        /\ pendingImages[i].status = "uploaded"
        /\ pendingImages[i].uploads = 1
        /\ \E r \in DOMAIN srvSubs :
              srvSubs[r].answers[pendingImages[i].questionId].imageUrl =
                 pendingImages[i].cloudinaryUrl

\* The upload of the image the cycle works on is answered with a failure.
UploadFails(p) ==
    /\ pc[p] = "uploading"
    /\ pc'[p] # "uploading"
    /\ pendingImages'[Head(loc[p].imgq).localId].status # "uploaded"

\* The failing step marks the image failed and the record failed, touches no
\* other image, sends nothing to POST /api/submit and leaves the record.
FailureStopsRecord ==
    \A p \in Procs :
        UploadFails(p) =>
            LET image == Head(loc[p].imgq)
                sub == Head(loc[p].queue)
            IN /\ pendingImages'[image.localId].status = "failed"
               /\ \A j \in ImageIds \ {image.localId} :
                     pendingImages'[j] = pendingImages[j]
               /\ offlineSubmissions'[sub.localId].status = "failed"
               /\ offlineSubmissions'[sub.localId].errorMessage # "null"
               /\ srvSubs' = srvSubs
               /\ pc'[p] = "subs"
               /\ loc'[p].imgq = <<>>

\* While a cycle holds a failed image of a record, the images of the record
\* after it are not uploading, not failed and, if pending, were never uploaded;
\* and the server holds no row of the record.
RestUntouched ==
    \A p \in Procs, i, j \in ImageIds :
        (/\ InCycle(p)
         /\ pendingImages[i].submissionLocalId \in loc[p].attempted
         /\ pendingImages[i].status = "failed"
         /\ pendingImages[j].submissionLocalId = pendingImages[i].submissionLocalId
         /\ j > i)
        => /\ pendingImages[j].status \in {"pending", "uploaded"}
           /\ pendingImages[j].status = "pending" => pendingImages[j].uploads = 0
           /\ \A r \in DOMAIN srvSubs :
                 srvSubs[r].clientSubmissionId #
                    offlineSubmissions[pendingImages[i].submissionLocalId]
                       .clientSubmissionId

\* C17: when the upload of an image fails, the image is marked failed, the
\* record is marked failed, the remaining images of the record are not
\* uploaded and keep their status and URL, and nothing is sent to
\* POST /api/submit for the record.
C17_UploadFailureStopsRecord == []RestUntouched /\ [][FailureStopsRecord]_vars

\* The first image of a record failed with a second one still waiting, and
\* the cycle has gone on to its last steps.
C17_Witness ==
    \E p \in Procs, i, j \in ImageIds :
        /\ pc[p] \in {"pull", "finish"}
        /\ i < j
        /\ pendingImages[i].submissionLocalId = pendingImages[j].submissionLocalId
        /\ pendingImages[i].submissionLocalId \in loc[p].attempted
        /\ pendingImages[i].status = "failed"
        /\ pendingImages[j].status = "pending"
        /\ pendingImages[j].uploads = 0
        /\ offlineSubmissions[pendingImages[i].submissionLocalId].status = "failed"
        /\ srvSubs = <<>>

\* A table is empty (never filled) or holds one complete set the server serves;
\* once the schools have been replaced with success the table is never empty.
NeverPartial ==
    /\ cachedSchools \in Catalogues \cup {{}}
    /\ cachedAssessments \in Catalogues \cup {{}}
    /\ schoolsMeta # "none" => cachedSchools \in Catalogues

\* A step that changes a table puts the fetched set in its place; a table that
\* was filled is not emptied; the step that records the schools as synced
\* leaves exactly the fetched set in the table.
ReplacedWhole ==
    /\ cachedSchools' # cachedSchools => cachedSchools' = srvSchools
    /\ cachedAssessments' # cachedAssessments => cachedAssessments' = srvAssessments
    /\ cachedSchools # {} => cachedSchools' # {}
    /\ cachedAssessments # {} => cachedAssessments' # {}
    /\ (schoolsMeta' = "fresh" /\ schoolsMeta # "fresh") =>
          cachedSchools' = srvSchools

\* C18: the replacement of the schools and of the assessments snapshot is
\* all-or-nothing: the table a reader sees is the complete old set or the
\* complete new set, a failed replacement leaves the old set, a successful one
\* leaves exactly the fetched set.
C18_ReplacementAtomic == []NeverPartial /\ [][ReplacedWhole]_vars

\* Both tables hold the largest set, fetched after the server changed, and the
\* server has changed again since: the tables still hold the whole older set.
C18_Witness ==
    /\ cachedSchools = 1..MaxSchools
    /\ cachedAssessments = 1..MaxSchools
    /\ srvSchools # cachedSchools
    /\ srvAssessments # cachedAssessments
    /\ \E c \in Callers : refresh[c].at # "idle"

\* C19: a cycle that reaches its end has fetched the assessments and has run
\* the grading pull.
C19_CycleRefreshesSnapshots ==
    \A p \in Procs :
        pc[p] = "finish" =>
           Started(p, "assessments") /\ Started(p, "grading-pull")

\* The step of a cycle that decides on the schools: syncSchools is called
\* exactly when no timestamp is stored or the interval has passed.
GateDecides ==
    \A p \in Procs :
        (pc[p] = "schools" /\ pc'[p] # "schools") =>
            (ShouldSyncSchools <=>
                \E i \in DOMAIN loc'[p].steps : loc'[p].steps[i] = "schools")

Returns(l) == login'[l] # login[l] /\ login'[l].at = "done"

\* What the credential cache says about an attempt.
CacheVerdict(username, password) ==
    LET known == GetKnownUser(knownUsers, username)
    IN IF known = {} THEN "not_found"
       ELSE IF password # DecryptPassword((CHOOSE r \in known : TRUE).storedPassword)
       THEN "invalid_password"
       ELSE "ok"

\* An attempt made while checkActualConnectivity reports offline returns what
\* the cache says.
DecidedFromCache ==
    \A l \in Logins :
        (Returns(l) /\ ~login'[l].reported) =>
            login'[l].result = CacheVerdict(login'[l].username, login'[l].password)

\* C21: a login attempted while the connectivity check reports offline is
\* accepted exactly when the cache holds the username with that password, and
\* is rejected as not found or as invalid password otherwise.
C21_OfflineLoginFromCache == [][DecidedFromCache]_vars

\* An attempt made with navigator.onLine false for a username that logged in
\* online before is accepted exactly with the password of the most recent such
\* login.
OfflineMatchesLastOnline ==
    \A l \in Logins :
        (Returns(l) /\ login'[l].offline /\ lastOnline[login'[l].username].known) =>
            (login'[l].result = "ok" <=>
                login'[l].password = lastOnline[login'[l].username].password)

\* A logout leaves the cache as it is.
LogoutKeepsCache ==
    (sessionTbl # {} /\ sessionTbl' = {}) => knownUsers' = knownUsers

OneSession ==
    /\ Cardinality(sessionTbl) <= 1
    /\ sessionTbl = {} <=> teacherSession = 0
    /\ \A r \in sessionTbl :
          /\ r.id = 1
          /\ r.userId = lastOk.userId
          /\ r.userId = teacherSession
          /\ DecryptPassword(r.storedPassword) = lastOk.password

\* A login that returns success leaves the session of its user and nothing
\* else; a logout leaves no session.
SessionReplaced ==
    /\ \A l \in Logins :
          (Returns(l) /\ login'[l].result = "ok") =>
             /\ Cardinality(sessionTbl') = 1
             /\ \A r \in sessionTbl' : r.username = login'[l].username
    /\ teacherSession' = 0 => sessionTbl' = {}

\* C23: at most one session row exists; a login that returns success replaces
\* it with the session of its user, a logout removes it, and the row is that of
\* the most recent successful login.
C23_SingleSession == []OneSession /\ [][SessionReplaced]_vars

\* The second user has logged in over the session of the first.
C23_Witness ==
    /\ \E r \in sessionTbl : r.userId = 2 /\ r.id = 1
    /\ lastOk.userId = 2
    /\ \E r \in knownUsers : r.userId = 1

\* For the password of every login attempt, encryptPassword returns and
\* decryptPassword gives the password back.
RoundTrip ==
    \A l \in Logins :
        login[l].at # "idle" =>
            LET encrypted == EncryptPassword(login[l].password)
            IN /\ encrypted.ok
               /\ DecryptPassword(encrypted.value) = login[l].password

\* verifyStoredPassword answers TRUE exactly for the password of the session.
VerifiesSessionPassword ==
    verified' # verified =>
        (verified'.result <=>
            (sessionTbl # {} /\ verified'.password = lastOk.password))

\* C30: decryptPassword(encryptPassword(p)) = p for every password p, and
\* verifyStoredPassword is TRUE for the password of the session and FALSE for
\* every other one.
C30_ObfuscationReversible == []RoundTrip /\ [][VerifiesSessionPassword]_vars

\* A synced record carries the id of a server row made from its correlation id,
\* a sync date and no error; each of its images is uploaded with the URL the
\* upload returned, and the answers the server holds carry that URL.
SyncedComplete ==
    \A i \in RecordIds :
        LET row == offlineSubmissions[i]
            s == row.serverSubmissionId
        IN row.status = "synced" =>
             /\ s \in DOMAIN srvSubs
             /\ srvSubs[s].client_submission_id = row.clientSubmissionId
             /\ row.syncedAt = "date"
             /\ row.errorMessage = "null"
             /\ \A j \in ImagesOf(i) :
                   /\ pendingImages[j].status = "uploaded"
                   /\ pendingImages[j].cloudinaryUrl = SecureUrl(j)
                   /\ srvSubs[s].answers[pendingImages[j].questionId].imageUrl
                        = SecureUrl(j)

\* The id stored with a record that becomes synced is the one POST /api/submit
\* returned for its correlation id.
SyncedWithReturnedId ==
    \A i \in RecordIds :
        (offlineSubmissions[i].status # "synced"
            /\ offlineSubmissions'[i].status = "synced") =>
           <<offlineSubmissions'[i].clientSubmissionId,
             offlineSubmissions'[i].serverSubmissionId>> \in srvResponses'

\* C24: a pending record whose uploads and POST succeed is synced with the id
\* the server returned, a sync date and no error; its images are uploaded with
\* the returned URLs, and the payload posted carried those URLs and the
\* correlation id.
C24_SyncedRecord == []SyncedComplete /\ [][SyncedWithReturnedId]_vars

\* A cycle uploaded the image of a record and synced the record.
C24_Witness ==
    \E p \in Procs, i \in RecordIds :
        /\ InCycle(p)
        /\ i \in loc[p].attempted
        /\ offlineSubmissions[i].status = "synced"
        /\ ImagesOf(i) # {}
        /\ \A j \in ImagesOf(i) : j \notin loc[p].skipped

\* The table of the records only grows; a row differs from what it was in
\* nothing but status, syncedAt, serverSubmissionId and errorMessage, and only
\* by a step of the cycle that is syncing it.
RecordsKept ==
    /\ Len(offlineSubmissions') >= Len(offlineSubmissions)
    /\ \A i \in RecordIds :
          LET row == offlineSubmissions[i]
              after == offlineSubmissions'[i]
          IN /\ [after EXCEPT !.status = row.status,
                              !.syncedAt = row.syncedAt,
                              !.serverSubmissionId = row.serverSubmissionId,
                              !.errorMessage = row.errorMessage] = row
             /\ after # row =>
                   \E p \in Procs :
                      /\ InCycle(p)
                      /\ loc[p].queue # <<>>
                      /\ Head(loc[p].queue).localId = i

\* C28: no record is ever deleted, and a record changes only by the status
\* updates of the cycle, which touch status, syncedAt, serverSubmissionId and
\* errorMessage and leave the payload as it was made.
C28_RecordsKept == [][RecordsKept]_vars

\* Every record that can be made is in the table, one of them synced after the
\* upload of its image, with the answers it was made with.
C28_Witness ==
    /\ Len(offlineSubmissions) = MaxRecords
    /\ \E i \in RecordIds :
          /\ offlineSubmissions[i].status = "synced"
          /\ offlineSubmissions[i].answers = InitialAnswers
          /\ \E j \in ImagesOf(i) : pendingImages[j].status = "uploaded"

\* A cycle is entered only by an invocation whose checkActualConnectivity
\* returned true.
CycleAfterProbe ==
    \A p \in Procs :
        (~InCycle(p) /\ InCycle(p)') => (pc[p] = "checked" /\ loc[p].check.result)

\* A forced refresh has its request out only after checkActualConnectivity
\* returned true for it.
RefreshAfterProbe ==
    \A c \in Callers : refresh[c].at # "idle" => refresh[c].check.result

\* C26: triggerSync, the 'online' handler, the 'focus' handler,
\* forceSyncSchools and forceSyncAssessments issue their requests only after
\* checkActualConnectivity reported online for the invocation.
C26_ProbeBeforeRequests == []RefreshAfterProbe /\ [][CycleAfterProbe]_vars

\* The POST /api/grading requests in flight: those of the cycles and those of
\* the grading page.
GradePushesInFlight ==
    Cardinality({p \in Procs : pc[p] = "pushing"})
        + Cardinality({c \in PageSyncs : pagePush[c].at = "posting"})

\* C27: at no time are two grade pushes in flight, whether started by a cycle
\* or by the grading page.
C27_OneGradePush == GradePushesInFlight <= 1

\* C29: a batch of marks and completion-status hints applied twice leaves the
\* marks, the total and the status of every submission as they were after it
\* was applied once.
C29_PostIdempotent == posted.times >= 1 => srvGrading = posted.once

\* A batch with a hint was applied twice; its first application gave marks to
\* an objective answer that had none and changed the total.
C29_Witness ==
    /\ posted.times = MaxPosts
    /\ posted.hints # <<>>
    /\ \E s \in GradeSubs :
          /\ posted.before[s].objective = <<>>
          /\ posted.once[s].objective # <<>>
          /\ posted.once[s].marksObtained > posted.before[s].marksObtained
          /\ posted.once[s].marksAwarded # posted.before[s].marksAwarded

\* The marks a row of db.offlineGrades asks for.
EditOf(g) == [submissionId |-> g.submissionId, answerId |-> g.answerId, marks |-> g.marks]

\* When a push is answered with 2xx, the request carried the marks of every
\* edit it read, and every such edit is marked synced.
PushedAsSaved ==
    \A p \in Procs :
        (pc[p] = "pushing" /\ loc'[p].pushed # {}) =>
            \A g \in loc[p].snap :
                /\ EditOf(g) \in GradesBody(loc[p].snap)
                /\ \A h \in offlineGrades' : h.id = g.id => h.synced

\* After the pull of the cycle the cached submission shows, for every edit the
\* cycle pushed, the marks pushed, unless an edit of the same answer with other
\* marks was saved in the meantime.
MirrorShowsPushed ==
    \A p \in Procs :
        pc[p] = "finish" =>
            \A g \in loc[p].pushed :
                \/ syncedSubmissions[g.submissionId].marksAwarded[g.answerId] = g.marks
                \/ \E h \in offlineGrades :
                      /\ h.id = g.id
                      /\ h.marks # g.marks

\* C25: an edit (a, m) pushed successfully by a cycle was in the request as
\* a |-> m and is marked synced, and after the pull of that cycle the cached
\* submission shows m for a.
C25_PushedEditShown == []MirrorShowsPushed /\ [][PushedAsSaved]_vars

\* ------------------------------------------------------------- C31
LocalGrades(rows, localId) == {g \in rows : g.submissionId = -localId}

\* The request of POST /api/submit of p was answered and the record is synced.
SyncedBy(p) ==
    /\ pc[p] = "post"
    /\ pc'[p] # "post"
    /\ offlineSubmissions'[Head(loc[p].queue).localId].status = "synced"

\* Every edit the store holds for the record when it is synced went out in the
\* payload as marksAwarded of its answer.
LocalGradesSent ==
    [][\A p \in Procs :
         SyncedBy(p) =>
            \A g \in LocalGrades(offlineGrades, Head(loc[p].queue).localId) :
               -g.answerId \in DOMAIN loc[p].answers =>
                  loc[p].answers[-g.answerId].marksAwarded = g.marks]_vars

\* An edit of a local record leaves the store only in the step that marks the
\* record synced after its POST; a failed attempt keeps all of them.
LocalGradesDeletedAfterSuccess ==
    [][\A g \in offlineGrades :
         (g.submissionId < 0 /\ \A h \in offlineGrades' : h.id # g.id) =>
            \E p \in Procs :
               /\ SyncedBy(p)
               /\ Head(loc[p].queue).localId = -g.submissionId]_vars

\* C31: when a local record L is synced, every pending edit stored under
\* (-L, -q) for a question q of the record is sent in the payload of POST
\* /api/submit as marksAwarded of answer q; these edits are deleted only after
\* the POST succeeded and the record was marked synced, and all of them are
\* kept when the attempt fails.
C31_LocalGradesSentThenDeleted ==
    LocalGradesSent /\ LocalGradesDeletedAfterSuccess

\* ------------------------------------------------------------- C36
\* C36: the grade push sends, and marks synced, only edits keyed by a positive
\* submission id of a server row; an edit keyed by the negative id of a local
\* record that is not synced yet is never in a POST /api/grading request and
\* is never marked synced.
C36_PushOnlyServerIds ==
    /\ \A p \in Procs :
          pc[p] = "pushing" => \A g \in loc[p].snap : g.submissionId > 0
    /\ \A g \in offlineGrades : g.submissionId < 0 => ~g.synced

\* ------------------------------------------------------------- C38
\* The status of local record i, "none" while it is not made.
StatusOf(i) ==
    IF i \in DOMAIN offlineSubmissions THEN offlineSubmissions[i].status ELSE "none"

\* C38: a local record left with status syncing because the process stopped in
\* the middle of a cycle is attempted again by a cycle after the restart: no
\* record stays in status syncing forever while cycles keep running, that is,
\* while cycles go on reading the pending records and the process is not
\* stopped again and again without end.
C38_SyncingIsLeft ==
    \/ []<><<Reload>>_vars
    \/ <>[][\A p \in Procs : ~SchoolsStep(p)]_vars
    \/ \A i \in 1..MaxRecords :
          (StatusOf(i) = "syncing") ~> (StatusOf(i) # "syncing")

\* ------------------------------------------------------------- C32
SyncingRecords == {i \in DOMAIN offlineSubmissions : offlineSubmissions[i].status = "syncing"}

UploadingImages == {j \in DOMAIN pendingImages : pendingImages[j].status = "uploading"}

\* The invocations that wait for the answer of POST /api/upload or /api/submit.
RequestsInFlight == {p \in Procs : pc[p] \in {"uploading", "post"}}

\* C32: in every reachable state at most one local record has status syncing,
\* at most one pending image has status uploading, and at most one upload or
\* submit request is in flight.
C32_OneAtATime ==
    /\ Cardinality(SyncingRecords) <= 1
    /\ Cardinality(UploadingImages) <= 1
    /\ Cardinality(RequestsInFlight) <= 1

\* ------------------------------------------------------------- C33
\* The questions of the images queued for a record.
QueuedFor(localId) == {pendingImages[j].questionId : j \in ImagesOf(localId)}

\* C33: saveSubmissionWithImages is atomic: the record and all the pending
\* images created with it are stored together or not at all, so no sync cycle
\* observes or submits a pending record whose images are not queued yet.
C33_RecordWithItsImages ==
    /\ \A j \in DOMAIN pendingImages :
          pendingImages[j].submissionLocalId \in RecordIds
    /\ \A i \in RecordIds : QueuedFor(i) = givenImages[i]
    /\ \A p \in Procs :
          pc[p] = "upload" =>
             LET localId == Head(loc[p].queue).localId
                 inHand == {loc[p].imgq[k].row.questionId : k \in DOMAIN loc[p].imgq}
                 uploaded == {pendingImages[j].questionId :
                                j \in {k \in ImagesOf(localId) :
                                         pendingImages[k].status = "uploaded"}}
             IN givenImages[localId] \subseteq inHand \cup uploaded

\* A cycle attempts a record made with an image and has its image in hand.
C33_Witness ==
    \E p \in Procs :
       /\ pc[p] = "upload"
       /\ givenImages[Head(loc[p].queue).localId] # {}
       /\ Len(loc[p].imgq) = Cardinality(givenImages[Head(loc[p].queue).localId])

\* ------------------------------------------------------------- C34
\* The calls of updateSubmissionStatus that pass no error message
\* (sync.ts:355, 393).
PlainUpdates == {<<"syncing", 0>>} \cup {<<"synced", id>> : id \in 1..MaxRecords}

\* C34: a local record has a non-null errorMessage exactly when its status is
\* failed, and a later status update clears the message: whatever record
\* updateSubmissionStatus is called for without a message, failed ones
\* included, the row it writes has errorMessage null.
C34_MessageIffFailed ==
    /\ \A i \in RecordIds :
          (offlineSubmissions[i].errorMessage # "null")
             <=> (offlineSubmissions[i].status = "failed")
    /\ \A i \in RecordIds, u \in PlainUpdates :
          UpdateSubmissionStatus(offlineSubmissions, i, u[1], u[2],
                                 "null")[i].errorMessage = "null"

\* A record failed and carries the message of the failure, another one was
\* updated without a message.
C34_Witness ==
    \E i, k \in RecordIds :
       /\ offlineSubmissions[i].status = "failed"
       /\ offlineSubmissions[i].errorMessage = "message"
       /\ offlineSubmissions[k].status = "synced"

\* ------------------------------------------------------------- C35
\* C35: if saveOfflineGrade changes the marks of an edit while a grade push
\* that carries its previous marks is in flight, the edit is still unsynced
\* after that push has completed.
C35_ChangedEditStaysUnsynced ==
    [][\A p \in Procs :
         (pc[p] = "pushing" /\ pc'[p] # "pushing") =>
            \A g \in loc[p].snap, h \in offlineGrades :
               (h.id = g.id /\ h.marks # g.marks) =>
                  \E k \in offlineGrades' : k.id = g.id /\ ~k.synced]_vars

\* ------------------------------------------------------------- C37
\* A grade push that failed, or that returned at once for want of a session,
\* changes no row of db.offlineGrades.
FailedPushChangesNothing ==
    [][\A p \in Procs :
         \/ pc[p] = "pushing" /\ pc'[p] # "pushing" /\ loc'[p].unpushed # {}
         \/ pc[p] = "subs" /\ pc'[p] = "pull" /\ teacherSession = 0
         => offlineGrades' = offlineGrades]_vars

\* A grade push with a session sends every edit that is unsynced when it starts.
PushTakesAllUnsynced ==
    [][\A p \in Procs :
         (pc[p] = "subs" /\ pc'[p] # "subs" /\ teacherSession # 0)
            => /\ (GetPendingOfflineGrades(offlineGrades) # {}) <=> (pc'[p] = "pushing")
               /\ pc'[p] = "pushing" =>
                     loc'[p].snap = GetPendingOfflineGrades(offlineGrades)]_vars

\* C37: when the grade push fails (network error or non-2xx response) or no
\* session is stored, the synced flag of no pending edit changes: every
\* unsynced edit stays unsynced and is included in the push of the next cycle.
C37_FailedPushKeepsEdits ==
    FailedPushChangesNothing /\ PushTakesAllUnsynced

\* The push of a cycle failed and its edit is in the store as it was, unsynced.
C37_Witness ==
    \E p \in Procs :
       /\ pc[p] = "pull"
       /\ loc[p].unpushed # {}
       /\ \A g \in loc[p].unpushed : g \in offlineGrades /\ ~g.synced

\* ------------------------------------------------------------- C39
\* The table of cached schools changes only in a step that also leaves the
\* timestamp fresh, and the timestamp turns fresh only in a step that leaves
\* the table equal to the list of the server.
TimestampWithSnapshot ==
    [][/\ cachedSchools' # cachedSchools => schoolsMeta' = "fresh"
       /\ (schoolsMeta' = "fresh" /\ schoolsMeta # "fresh")
             => cachedSchools' = srvSchools]_vars

\* A cycle whose gate asked for the refresh and whose refresh failed leaves
\* table and timestamp as they were, and the gate still asks for the refresh.
FailedRefreshKeepsGate ==
    [][\A p \in Procs :
         (pc[p] = "schools" /\ pc'[p] = "subs" /\ ShouldSyncSchools
             /\ schoolsMeta' # "fresh")
            => /\ cachedSchools' = cachedSchools
               /\ schoolsMeta' = schoolsMeta
               /\ ShouldSyncSchools']_vars

\* C39: when a schools refresh fails, the cached schools table and the
\* last-sync timestamp are unchanged, so the gate still reports the refresh as
\* due; the timestamp advances only after the snapshot was replaced.
C39_FailedRefreshChangesNothing ==
    TimestampWithSnapshot /\ FailedRefreshKeepsGate

\* A cycle ran the schools refresh, the refresh failed, and the device still
\* has no school and no timestamp.
C39_Witness ==
    \E p \in Procs :
       /\ pc[p] = "subs"
       /\ loc[p].steps = <<"schools", "submissions">>
       /\ schoolsMeta = "none"
       /\ cachedSchools = {}

\* ------------------------------------------------------------- C40
\* The attempt that returns in this step had to be rejected: offline, the
\* cache has no such user or another password; online, the server has no user
\* with that name and password, or the request failed.
MustBeRejected(l) ==
    IF login'[l].offline
    THEN CacheVerdict(login'[l].username, login'[l].password) # "ok"
    ELSE \/ ~\E u \in UserIds :
               /\ srvUsers[u].username = login'[l].username
               /\ srvUsers[u].password = login'[l].password
         \/ login'[l].result = "error"

\* C40: a rejected login (offline: unknown user or wrong password; online: a
\* non-2xx response or a network error) leaves the stored session and the
\* cache of known users unchanged.
C40_RejectedLoginStoresNothing ==
    [][\A l \in Logins :
         (Returns(l) /\ (login'[l].result # "ok" \/ MustBeRejected(l)))
            => /\ login'[l].result # "ok"
               /\ sessionTbl' = sessionTbl
               /\ knownUsers' = knownUsers]_vars

\* An online login with a wrong password was rejected while the session of
\* another login is stored.
C40_Witness ==
    \E l \in Logins :
       /\ login[l].at = "done"
       /\ login[l].result = "rejected"
       /\ ~login[l].offline
       /\ GetTeacherSession(sessionTbl) # {}

====
